---- MODULE Spec2Model ----
(***************************************************************************)
(* A model of the tarot retrieval subsystem of the HealMate LINE bot:      *)
(*   - the corpus builder  (scripts/data_pipeline.py, step_process_...)    *)
(*   - the embedding adapters and the index loader (step_embed_and_upload) *)
(*   - the retrieval query service (services/rag.py) and its endpoint      *)
(* Each part has its own specification over the shared variables.          *)
(***************************************************************************)
EXTENDS Integers, Sequences, FiniteSets, TLC

VARIABLES
  raw_file,        \* data/tarot_raw.json: [exists, cards]
  processed_file,  \* data/tarot_cards_processed.json: [exists, cards]
  raw_cards,       \* the list the last run of the process step read (line 219)
  proc_exit,       \* outcome of the last run of the process step
  proc_log,        \* what the last run of the process step logged
  proc_runs,       \* how many times the process step has run
  cards_file,      \* data/tarot_cards.json: [exists, cards]
  fixed_file,      \* data/tarot_cards_fixed.json: [exists, cards]
  fix_exit,        \* outcome of the last run of fix_tarot_json.py
  collections,     \* the vector store: the list of its collections
  qdrant_up,       \* whether the vector store answers
  embedder,        \* the Embedder of the running pipeline: [kind, model, dimension]
  collection_name, \* the collection the running pipeline loads
  emb_in,          \* the texts of the last get_embeddings call
  emb_out,         \* what that call returned: [ok, vectors]
  dim_out,         \* the get_dimension calls of that embedder, the last one and
                   \* their count: [n, ok, value, probed, good_probes, first]
  load_exit,       \* outcome of the upload step of the running pipeline
  load_runs,       \* how many times the upload step has run
  prep_exit,       \* outcome of the last run of prepare_tarot_embeddings_ollama_simple.py
  prep_failed,     \* the places of the cards whose embedding failed in that run
  prep_puts,       \* the batches that run sent to the store: [first, last, ok]
  prep_runs,       \* how many times that script has run
  rag,             \* the RAGService of the app: [state, client, ollama_enabled, embedding_dim]
  ensure_log,      \* the calls of create_collection_if_not_exists: [up, ok, created]
  rag_in,          \* the request in hand: [text, limit, filter_params]
  search_result,   \* what the store answered to its search: [ok, hits]
  rag_out,         \* what RAGService.query did: [returned, raised, results]
  rag_calls,       \* the requests that query sent out: [to, ok, dim, limit],
                   \* a search also with its query_filter
  http,            \* the answer of POST /rag/query: [status, results, count]
  inflight,        \* the query coroutines of the callers: [pc, text, limit, out]
  tool,            \* the last run of the TarotReader tool:
                   \* [out, searched, hits, prompt, llm_called]
  events,          \* the message events of the webhook, by reply token:
                   \* [pc, kind, user_id, text, memory, raised, replies]
  user_memories,   \* langchain_agent.user_memories: user_id -> its memory, if any
  memories,        \* the memory objects made so far: [user_id, saved]
  tarot_service,   \* TarotService: [cards, reads, calls]
  draw_out         \* the last call of TarotService.draw: [n, picked, cards, answer]

fix_vars == << cards_file, fixed_file, fix_exit >>
builder_vars == << raw_file, raw_cards, proc_exit, proc_log, proc_runs, fix_vars >>
store_vars == << collections, qdrant_up >>
prep_vars == << prep_exit, prep_failed, prep_puts, prep_runs >>
loader_vars ==
  << embedder, collection_name, emb_in, emb_out, dim_out, load_exit, load_runs,
     prep_vars >>
app_vars == << events, user_memories, memories, tarot_service, draw_out >>
query_vars == << rag, ensure_log, rag_in, search_result, rag_out, rag_calls, http, inflight, tool, app_vars >>
vars == << builder_vars, processed_file, store_vars, loader_vars, query_vars >>

(***************************************************************************)
(* Bounds of the model.                                                    *)
(***************************************************************************)
MaxRuns == 2      \* runs of the process step
MaxRot == 3       \* rotations of the deck order tried as input
RotStep == 17     \* cards one rotation moves
MaxEditPos == 3   \* positions of an input at which a card is edited
MaxLoads == 2     \* runs of the upload step
MaxTexts == 2     \* texts of a direct get_embeddings call
MaxLimit == 2     \* the limit of a query
MaxBelow == 1     \* how far below 0 the limit of a query goes
MaxEnsures == 2   \* calls of create_collection_if_not_exists
MaxDimCalls == 2  \* direct get_dimension calls on one embedder
MaxPreps == 2     \* runs of prepare_tarot_embeddings_ollama_simple.py
MaxFailedAt == 1  \* the last place of a card whose embedding fails alone

(***************************************************************************)
(* Constants of scripts/data_pipeline.py.                                  *)
(***************************************************************************)
TAROT_SOURCE_URL == "https://www.tarot.com/tarot/decks/rider-waite/cards"

MAJOR_ARCANA_ORDER ==
  << "The Fool", "The Magician", "The High Priestess", "The Empress", "The Emperor",
     "The Hierophant", "The Lovers", "The Chariot", "Strength", "The Hermit",
     "Wheel of Fortune", "Justice", "The Hanged Man", "Death", "Temperance",
     "The Devil", "The Tower", "The Star", "The Moon", "The Sun", "Judgement",
     "The World" >>

MINOR_ARCANA_SUITS == << "Wands", "Cups", "Swords", "Pentacles" >>

MINOR_ARCANA_RANKS ==
  << "Ace", "Two", "Three", "Four", "Five", "Six", "Seven", "Eight", "Nine", "Ten",
     "Page", "Knight", "Queen", "King" >>

ExpectedCards == 156

BatchSize == 32

UploadBatchSize == 100

(***************************************************************************)
(* Strings.  TLC treats a string as an atom, so the characters of every    *)
(* string the model computes with are tabulated: Spelling[s] is s as the   *)
(* sequence of its characters.                                             *)
(***************************************************************************)
Spelling ==
     ("The Fool" :> <<"T","h","e"," ","F","o","o","l">>)
  @@ ("The Magician" :> <<"T","h","e"," ","M","a","g","i","c","i","a","n">>)
  @@ ("The High Priestess" :> <<"T","h","e"," ","H","i","g","h"," ","P","r","i","e","s","t","e","s","s">>)
  @@ ("The Empress" :> <<"T","h","e"," ","E","m","p","r","e","s","s">>)
  @@ ("The Emperor" :> <<"T","h","e"," ","E","m","p","e","r","o","r">>)
  @@ ("The Hierophant" :> <<"T","h","e"," ","H","i","e","r","o","p","h","a","n","t">>)
  @@ ("The Lovers" :> <<"T","h","e"," ","L","o","v","e","r","s">>)
  @@ ("The Chariot" :> <<"T","h","e"," ","C","h","a","r","i","o","t">>)
  @@ ("Strength" :> <<"S","t","r","e","n","g","t","h">>)
  @@ ("The Hermit" :> <<"T","h","e"," ","H","e","r","m","i","t">>)
  @@ ("Wheel of Fortune" :> <<"W","h","e","e","l"," ","o","f"," ","F","o","r","t","u","n","e">>)
  @@ ("Justice" :> <<"J","u","s","t","i","c","e">>)
  @@ ("The Hanged Man" :> <<"T","h","e"," ","H","a","n","g","e","d"," ","M","a","n">>)
  @@ ("Death" :> <<"D","e","a","t","h">>)
  @@ ("Temperance" :> <<"T","e","m","p","e","r","a","n","c","e">>)
  @@ ("The Devil" :> <<"T","h","e"," ","D","e","v","i","l">>)
  @@ ("The Tower" :> <<"T","h","e"," ","T","o","w","e","r">>)
  @@ ("The Star" :> <<"T","h","e"," ","S","t","a","r">>)
  @@ ("The Moon" :> <<"T","h","e"," ","M","o","o","n">>)
  @@ ("The Sun" :> <<"T","h","e"," ","S","u","n">>)
  @@ ("Judgement" :> <<"J","u","d","g","e","m","e","n","t">>)
  @@ ("The World" :> <<"T","h","e"," ","W","o","r","l","d">>)
  @@ ("Wands" :> <<"W","a","n","d","s">>)
  @@ ("Cups" :> <<"C","u","p","s">>)
  @@ ("Swords" :> <<"S","w","o","r","d","s">>)
  @@ ("Pentacles" :> <<"P","e","n","t","a","c","l","e","s">>)
  @@ ("Ace" :> <<"A","c","e">>)
  @@ ("Two" :> <<"T","w","o">>)
  @@ ("Three" :> <<"T","h","r","e","e">>)
  @@ ("Four" :> <<"F","o","u","r">>)
  @@ ("Five" :> <<"F","i","v","e">>)
  @@ ("Six" :> <<"S","i","x">>)
  @@ ("Seven" :> <<"S","e","v","e","n">>)
  @@ ("Eight" :> <<"E","i","g","h","t">>)
  @@ ("Nine" :> <<"N","i","n","e">>)
  @@ ("Ten" :> <<"T","e","n">>)
  @@ ("Page" :> <<"P","a","g","e">>)
  @@ ("Knight" :> <<"K","n","i","g","h","t">>)
  @@ ("Queen" :> <<"Q","u","e","e","n">>)
  @@ ("King" :> <<"K","i","n","g">>)
  @@ ("Ace of Wands" :> <<"A","c","e"," ","o","f"," ","W","a","n","d","s">>)
  @@ ("Two of Wands" :> <<"T","w","o"," ","o","f"," ","W","a","n","d","s">>)
  @@ ("Three of Wands" :> <<"T","h","r","e","e"," ","o","f"," ","W","a","n","d","s">>)
  @@ ("Four of Wands" :> <<"F","o","u","r"," ","o","f"," ","W","a","n","d","s">>)
  @@ ("Five of Wands" :> <<"F","i","v","e"," ","o","f"," ","W","a","n","d","s">>)
  @@ ("Six of Wands" :> <<"S","i","x"," ","o","f"," ","W","a","n","d","s">>)
  @@ ("Seven of Wands" :> <<"S","e","v","e","n"," ","o","f"," ","W","a","n","d","s">>)
  @@ ("Eight of Wands" :> <<"E","i","g","h","t"," ","o","f"," ","W","a","n","d","s">>)
  @@ ("Nine of Wands" :> <<"N","i","n","e"," ","o","f"," ","W","a","n","d","s">>)
  @@ ("Ten of Wands" :> <<"T","e","n"," ","o","f"," ","W","a","n","d","s">>)
  @@ ("Page of Wands" :> <<"P","a","g","e"," ","o","f"," ","W","a","n","d","s">>)
  @@ ("Knight of Wands" :> <<"K","n","i","g","h","t"," ","o","f"," ","W","a","n","d","s">>)
  @@ ("Queen of Wands" :> <<"Q","u","e","e","n"," ","o","f"," ","W","a","n","d","s">>)
  @@ ("King of Wands" :> <<"K","i","n","g"," ","o","f"," ","W","a","n","d","s">>)
  @@ ("Ace of Cups" :> <<"A","c","e"," ","o","f"," ","C","u","p","s">>)
  @@ ("Two of Cups" :> <<"T","w","o"," ","o","f"," ","C","u","p","s">>)
  @@ ("Three of Cups" :> <<"T","h","r","e","e"," ","o","f"," ","C","u","p","s">>)
  @@ ("Four of Cups" :> <<"F","o","u","r"," ","o","f"," ","C","u","p","s">>)
  @@ ("Five of Cups" :> <<"F","i","v","e"," ","o","f"," ","C","u","p","s">>)
  @@ ("Six of Cups" :> <<"S","i","x"," ","o","f"," ","C","u","p","s">>)
  @@ ("Seven of Cups" :> <<"S","e","v","e","n"," ","o","f"," ","C","u","p","s">>)
  @@ ("Eight of Cups" :> <<"E","i","g","h","t"," ","o","f"," ","C","u","p","s">>)
  @@ ("Nine of Cups" :> <<"N","i","n","e"," ","o","f"," ","C","u","p","s">>)
  @@ ("Ten of Cups" :> <<"T","e","n"," ","o","f"," ","C","u","p","s">>)
  @@ ("Page of Cups" :> <<"P","a","g","e"," ","o","f"," ","C","u","p","s">>)
  @@ ("Knight of Cups" :> <<"K","n","i","g","h","t"," ","o","f"," ","C","u","p","s">>)
  @@ ("Queen of Cups" :> <<"Q","u","e","e","n"," ","o","f"," ","C","u","p","s">>)
  @@ ("King of Cups" :> <<"K","i","n","g"," ","o","f"," ","C","u","p","s">>)
  @@ ("Ace of Swords" :> <<"A","c","e"," ","o","f"," ","S","w","o","r","d","s">>)
  @@ ("Two of Swords" :> <<"T","w","o"," ","o","f"," ","S","w","o","r","d","s">>)
  @@ ("Three of Swords" :> <<"T","h","r","e","e"," ","o","f"," ","S","w","o","r","d","s">>)
  @@ ("Four of Swords" :> <<"F","o","u","r"," ","o","f"," ","S","w","o","r","d","s">>)
  @@ ("Five of Swords" :> <<"F","i","v","e"," ","o","f"," ","S","w","o","r","d","s">>)
  @@ ("Six of Swords" :> <<"S","i","x"," ","o","f"," ","S","w","o","r","d","s">>)
  @@ ("Seven of Swords" :> <<"S","e","v","e","n"," ","o","f"," ","S","w","o","r","d","s">>)
  @@ ("Eight of Swords" :> <<"E","i","g","h","t"," ","o","f"," ","S","w","o","r","d","s">>)
  @@ ("Nine of Swords" :> <<"N","i","n","e"," ","o","f"," ","S","w","o","r","d","s">>)
  @@ ("Ten of Swords" :> <<"T","e","n"," ","o","f"," ","S","w","o","r","d","s">>)
  @@ ("Page of Swords" :> <<"P","a","g","e"," ","o","f"," ","S","w","o","r","d","s">>)
  @@ ("Knight of Swords" :> <<"K","n","i","g","h","t"," ","o","f"," ","S","w","o","r","d","s">>)
  @@ ("Queen of Swords" :> <<"Q","u","e","e","n"," ","o","f"," ","S","w","o","r","d","s">>)
  @@ ("King of Swords" :> <<"K","i","n","g"," ","o","f"," ","S","w","o","r","d","s">>)
  @@ ("Ace of Pentacles" :> <<"A","c","e"," ","o","f"," ","P","e","n","t","a","c","l","e","s">>)
  @@ ("Two of Pentacles" :> <<"T","w","o"," ","o","f"," ","P","e","n","t","a","c","l","e","s">>)
  @@ ("Three of Pentacles" :> <<"T","h","r","e","e"," ","o","f"," ","P","e","n","t","a","c","l","e","s">>)
  @@ ("Four of Pentacles" :> <<"F","o","u","r"," ","o","f"," ","P","e","n","t","a","c","l","e","s">>)
  @@ ("Five of Pentacles" :> <<"F","i","v","e"," ","o","f"," ","P","e","n","t","a","c","l","e","s">>)
  @@ ("Six of Pentacles" :> <<"S","i","x"," ","o","f"," ","P","e","n","t","a","c","l","e","s">>)
  @@ ("Seven of Pentacles" :> <<"S","e","v","e","n"," ","o","f"," ","P","e","n","t","a","c","l","e","s">>)
  @@ ("Eight of Pentacles" :> <<"E","i","g","h","t"," ","o","f"," ","P","e","n","t","a","c","l","e","s">>)
  @@ ("Nine of Pentacles" :> <<"N","i","n","e"," ","o","f"," ","P","e","n","t","a","c","l","e","s">>)
  @@ ("Ten of Pentacles" :> <<"T","e","n"," ","o","f"," ","P","e","n","t","a","c","l","e","s">>)
  @@ ("Page of Pentacles" :> <<"P","a","g","e"," ","o","f"," ","P","e","n","t","a","c","l","e","s">>)
  @@ ("Knight of Pentacles" :> <<"K","n","i","g","h","t"," ","o","f"," ","P","e","n","t","a","c","l","e","s">>)
  @@ ("Queen of Pentacles" :> <<"Q","u","e","e","n"," ","o","f"," ","P","e","n","t","a","c","l","e","s">>)
  @@ ("King of Pentacles" :> <<"K","i","n","g"," ","o","f"," ","P","e","n","t","a","c","l","e","s">>)
  @@ ("The Jester" :> <<"T","h","e"," ","J","e","s","t","e","r">>)
  @@ ("Ace of Coins" :> <<"A","c","e"," ","o","f"," ","C","o","i","n","s">>)
  @@ ("Lord of Cups" :> <<"L","o","r","d"," ","o","f"," ","C","u","p","s">>)
  @@ (" of " :> <<" ","o","f"," ">>)
  @@ ("tarot_" :> <<"t","a","r","o","t","_">>)
  @@ ("_" :> <<"_">>)
  @@ (":" :> <<":">>)
  @@ ("/" :> <<"/">>)
  @@ ("ollama" :> <<"o","l","l","a","m","a">>)
  @@ ("openai" :> <<"o","p","e","n","a","i">>)
  @@ ("nomic-embed-text" :> <<"n","o","m","i","c","-","e","m","b","e","d","-","t","e","x","t">>)
  @@ ("text-embedding-3-small" :> <<"t","e","x","t","-","e","m","b","e","d","d","i","n","g","-","3","-","s","m","a","l","l">>)
  @@ ("text-embedding-3-large" :> <<"t","e","x","t","-","e","m","b","e","d","d","i","n","g","-","3","-","l","a","r","g","e">>)
  @@ ("tarot_ollama_nomic-embed-text" :> <<"t","a","r","o","t","_","o","l","l","a","m","a","_","n","o","m","i","c","-","e","m","b","e","d","-","t","e","x","t">>)
  @@ ("tarot_openai_text-embedding-3-small" :> <<"t","a","r","o","t","_","o","p","e","n","a","i","_","t","e","x","t","-","e","m","b","e","d","d","i","n","g","-","3","-","s","m","a","l","l">>)
  @@ ("tarot_cards_ollama_nomic-embed-text" :> <<"t","a","r","o","t","_","c","a","r","d","s","_","o","l","l","a","m","a","_","n","o","m","i","c","-","e","m","b","e","d","-","t","e","x","t">>)
  @@ ("of Cups" :> <<"o","f"," ","C","u","p","s">>)
  @@ ("of Pentacles" :> <<"o","f"," ","P","e","n","t","a","c","l","e","s">>)
  @@ ("of Swords" :> <<"o","f"," ","S","w","o","r","d","s">>)
  @@ ("of Wands" :> <<"o","f"," ","W","a","n","d","s">>)
  @@ ("tarot_cards_ollama_" :> <<"t","a","r","o","t","_","c","a","r","d","s","_","o","l","l","a","m","a","_">>)
  @@ ("tarot_custom" :> <<"t","a","r","o","t","_","c","u","s","t","o","m">>)

Chars(s) == Spelling[s]

\* Python's `sub in s` on two strings: sub occurs in s as a contiguous run.
StrIn(sub, s) ==
  LET a == Chars(sub)
      b == Chars(s)
  IN \E i \in 0..(Len(b) - Len(a)) : SubSeq(b, i + 1, i + Len(a)) = a

\* f"{rank} of {suit}": the string spelled rank, " of ", suit.
FormatMinorName(rank, suit) ==
  CHOOSE n \in DOMAIN Spelling :
    Spelling[n] = Chars(rank) \o Chars(" of ") \o Chars(suit)

\* Python's `x in lst` and lst.index(x) (0-based) on a list.
ListHas(lst, x) == \E i \in DOMAIN lst : lst[i] = x

ListIndex(lst, x) ==
  (CHOOSE i \in DOMAIN lst : lst[i] = x /\ \A j \in 1..(i - 1) : lst[j] # x) - 1

Reverse(s) == [ i \in 1..Len(s) |-> s[Len(s) + 1 - i] ]

Range(s) == { s[i] : i \in DOMAIN s }

(***************************************************************************)
(* step_fetch_data: the simulated fetch writes the 78 cards in deck order. *)
(***************************************************************************)
RawCard(name) ==
  [ name_en  |-> name,
    upright  |-> << "Upright meaning for", name >>,
    reversed |-> << "Reversed meaning for", name >>,
    source   |-> TAROT_SOURCE_URL ]

MinorNames ==
  [ k \in 1..(Len(MINOR_ARCANA_SUITS) * Len(MINOR_ARCANA_RANKS)) |->
      FormatMinorName(
        MINOR_ARCANA_RANKS[((k - 1) % Len(MINOR_ARCANA_RANKS)) + 1],
        MINOR_ARCANA_SUITS[((k - 1) \div Len(MINOR_ARCANA_RANKS)) + 1]) ]

DummyData ==
  [ i \in 1..Len(MAJOR_ARCANA_ORDER) |-> RawCard(MAJOR_ARCANA_ORDER[i]) ]
    \o [ k \in DOMAIN MinorNames |-> RawCard(MinorNames[k]) ]

(***************************************************************************)
(* step_process_and_validate_data.                                         *)
(***************************************************************************)
Arcana(name) == IF ListHas(MAJOR_ARCANA_ORDER, name) THEN "Major" ELSE "Minor"

StructuredCard(raw_card, orientation) ==
  [ name        |-> raw_card.name_en,
    arcana      |-> Arcana(raw_card.name_en),
    orientation |-> orientation,
    meaning     |-> IF orientation = "upright" THEN raw_card.upright
                                               ELSE raw_card.reversed,
    source      |-> raw_card.source ]

\* Mutant: a card whose name is no Major name and holds no suit is skipped.
Expand_KnownOnly(cards) ==
  LET known == SelectSeq(cards, LAMBDA c :
                 \/ ListHas(MAJOR_ARCANA_ORDER, c.name_en)
                 \/ \E i \in DOMAIN MINOR_ARCANA_SUITS :
                      StrIn(MINOR_ARCANA_SUITS[i], c.name_en))
  IN [ k \in 1..(2 * Len(known)) |->
         StructuredCard(known[(k + 1) \div 2],
                        IF k % 2 = 1 THEN "upright" ELSE "reversed") ]

\* Lines 221-240: every raw card is appended upright, then reversed.
Expand(cards) ==
  [ k \in 1..(2 * Len(cards)) |->
      StructuredCard(cards[(k + 1) \div 2],
                     IF k % 2 = 1 THEN "upright" ELSE "reversed") ]

\* Lines 249-258: the first suit (rank) that occurs in the name, else -1.
SuitIndex(name) ==
  IF \E i \in DOMAIN MINOR_ARCANA_SUITS : StrIn(MINOR_ARCANA_SUITS[i], name)
  THEN (CHOOSE i \in DOMAIN MINOR_ARCANA_SUITS :
          /\ StrIn(MINOR_ARCANA_SUITS[i], name)
          /\ \A j \in 1..(i - 1) : ~StrIn(MINOR_ARCANA_SUITS[j], name)) - 1
  ELSE -1

RankIndex(name) ==
  IF \E i \in DOMAIN MINOR_ARCANA_RANKS : StrIn(MINOR_ARCANA_RANKS[i], name)
  THEN (CHOOSE i \in DOMAIN MINOR_ARCANA_RANKS :
          /\ StrIn(MINOR_ARCANA_RANKS[i], name)
          /\ \A j \in 1..(i - 1) : ~StrIn(MINOR_ARCANA_RANKS[j], name)) - 1
  ELSE -1

\* The two indexes of every name of the model, computed once.
SuitIndexOf == [ n \in DOMAIN Spelling |-> SuitIndex(n) ]
RankIndexOf == [ n \in DOMAIN Spelling |-> RankIndex(n) ]

\* Mutant: Minor cards are keyed by rank before suit.
GetSortKey_RankFirst(card) ==
  LET orientation_val == IF card.orientation = "upright" THEN 0 ELSE 1
  IN IF card.arcana = "Major"
     THEN << 0, ListIndex(MAJOR_ARCANA_ORDER, card.name), orientation_val >>
     ELSE << 1, RankIndexOf[card.name], SuitIndexOf[card.name], orientation_val >>

GetSortKey(card) ==
  LET orientation_val == IF card.orientation = "upright" THEN 0 ELSE 1
  IN IF card.arcana = "Major"
     THEN << 0, ListIndex(MAJOR_ARCANA_ORDER, card.name), orientation_val >>
     ELSE << 1, SuitIndexOf[card.name], RankIndexOf[card.name], orientation_val >>

\* Python's a < b on two tuples of integers.
RECURSIVE TupleLess(_, _)
TupleLess(a, b) ==
  IF a = << >> THEN b # << >>
  ELSE IF b = << >> THEN FALSE
  ELSE IF Head(a) = Head(b) THEN TupleLess(Tail(a), Tail(b))
  ELSE Head(a) < Head(b)

\* The one element of a singleton set.  Binding a value through a set makes
\* TLC compute it once.
Only(S) == CHOOSE v \in S : TRUE

\* The place (1-based) of every element in a stable sort by `key`: after the
\* elements with a smaller key and the earlier elements with an equal key.
StablePlaces(key) ==
  [ i \in DOMAIN key |->
      Cardinality({ j \in DOMAIN key :
        \/ TupleLess(key[j], key[i])
        \/ (key[j] = key[i] /\ j < i) }) + 1 ]

Placed(cards, pos) ==
  [ p \in DOMAIN cards |-> cards[CHOOSE i \in DOMAIN cards : pos[i] = p] ]

\* sorted(cards, key=get_sort_key): a stable sort, equal keys keep their order.
SortedCards(cards) ==
  Only({ Placed(c, pos) :
           c \in { cards },
           pos \in { StablePlaces(key) :
                       key \in { [ i \in DOMAIN cards |-> GetSortKey(cards[i]) ] } } })

\* Mutant: the ids are counted from 1.
AssignIds_FromOne(sorted_cards) ==
  [ i \in DOMAIN sorted_cards |-> ("id" :> i) @@ sorted_cards[i] ]

\* Mutant: the id counter goes on from the records already on disk.
AssignIds_Continuing(sorted_cards) ==
  [ i \in DOMAIN sorted_cards |->
      ("id" :> (Len(processed_file.cards) + i - 1)) @@ sorted_cards[i] ]

\* Lines 263-267: card["id"] = i for i, card in enumerate(sorted_cards).
AssignIds(sorted_cards) ==
  [ i \in DOMAIN sorted_cards |-> ("id" :> (i - 1)) @@ sorted_cards[i] ]

FinalCards(cards) ==
  Only({ AssignIds(sorted_cards) :
           sorted_cards \in { SortedCards(structured_cards) :
                                structured_cards \in { Expand(cards) } } })

\* Lines 275-276: len(ids) != len(set(ids)).
DuplicateIds(final_cards) ==
  Len(final_cards) # Cardinality({ final_cards[i].id : i \in DOMAIN final_cards })

NoFile == [ exists |-> FALSE, cards |-> << >> ]
FileOf(cards) == [ exists |-> TRUE, cards |-> cards ]

StepFetchData ==
  /\ raw_file' = FileOf(DummyData)
  /\ UNCHANGED << processed_file, raw_cards, proc_exit, proc_log, proc_runs >>
  /\ UNCHANGED << fix_vars, store_vars, loader_vars, query_vars >>

StepProcessAndValidateData ==
  /\ UNCHANGED << fix_vars, store_vars, loader_vars, query_vars >>
  /\ proc_runs < MaxRuns
  /\ proc_runs' = proc_runs + 1
  /\ IF ~raw_file.exists
       THEN /\ proc_exit' = "exit1"
            /\ proc_log' = { "Input file not found" }
            /\ UNCHANGED << raw_file, processed_file, raw_cards >>
       ELSE \E final_cards \in { FinalCards(raw_file.cards) } :
              LET count_log == IF Len(final_cards) # ExpectedCards
                               THEN { "Expected 156 cards" } ELSE { }
              IN /\ raw_cards' = raw_file.cards
                 /\ IF DuplicateIds(final_cards)
                    THEN /\ proc_exit' = "exit1"
                         /\ proc_log' = count_log \cup { "Duplicate IDs found" }
                         /\ UNCHANGED processed_file
                    ELSE /\ proc_exit' = "ok"
                         /\ proc_log' = count_log \cup { "Validation passed" }
                         /\ processed_file' = FileOf(final_cards)
                 /\ UNCHANGED raw_file

(***************************************************************************)
(* fix_tarot_json.py: the older repair of data/tarot_cards.json, which      *)
(* drops the repeated records, orders the rest and numbers them anew.      *)
(***************************************************************************)
\* The elements of s at the places I, in the order of s.
Subsequence(s, I) ==
  Only({ [ k \in 1..Cardinality(I) |-> s[CHOOSE i \in I : place[i] = k] ] :
           place \in { [ i \in I |-> Cardinality({ j \in I : j <= i }) ] } })

\* Python's s.startswith(prefix).
StartsWith(s, prefix) ==
  /\ Len(Chars(prefix)) <= Len(Chars(s))
  /\ SubSeq(Chars(s), 1, Len(Chars(prefix))) = Chars(prefix)

\* Lines 28-34: the first record of every (name, orientation), in the order
\* of the file.
UniqueCards(cards) ==
  Only({ Subsequence(cards, first) :
           first \in { { i \in DOMAIN cards :
                          \A j \in 1..(i - 1) :
                            \/ cards[j].name # cards[i].name
                            \/ cards[j].orientation # cards[i].orientation } } })

\* Lines 46-50: the groups, in the order in which lines 93-116 number them.
FIX_SUIT_ORDER == << "of Cups", "of Pentacles", "of Swords", "of Wands" >>

SuitCards(unique_cards, of_suit) ==
  SelectSeq(unique_cards, LAMBDA c : c.arcana = "Minor" /\ StrIn(of_suit, c.name))

MajorCards(unique_cards) == SelectSeq(unique_cards, LAMBDA c : c.arcana = "Major")

\* sort_major_cards, lines 68-73.
SortMajorCards(card) ==
  << IF ListHas(MAJOR_ARCANA_ORDER, card.name)
     THEN ListIndex(MAJOR_ARCANA_ORDER, card.name) ELSE 99,
     IF card.orientation = "upright" THEN 0 ELSE 1 >>

\* sort_minor_cards, lines 75-80: the first rank the name starts with.
MinorOrderIndex(name) ==
  IF \E i \in DOMAIN MINOR_ARCANA_RANKS : StartsWith(name, MINOR_ARCANA_RANKS[i])
  THEN (CHOOSE i \in DOMAIN MINOR_ARCANA_RANKS :
          /\ StartsWith(name, MINOR_ARCANA_RANKS[i])
          /\ \A j \in 1..(i - 1) : ~StartsWith(name, MINOR_ARCANA_RANKS[j])) - 1
  ELSE 99

SortMinorCards(card) ==
  << MinorOrderIndex(card.name), IF card.orientation = "upright" THEN 0 ELSE 1 >>

\* list.sort(key=...): a stable sort by the keys, one for each card.
SortedBy(cards, keys) ==
  Only({ Placed(c, pos) : c \in { cards }, pos \in { StablePlaces(keys) } })

SortedMajorCards(cards) ==
  SortedBy(cards, [ i \in DOMAIN cards |-> SortMajorCards(cards[i]) ])

SortedMinorCards(cards) ==
  SortedBy(cards, [ i \in DOMAIN cards |-> SortMinorCards(cards[i]) ])

\* Lines 83-116: the sorted groups one after the other, numbered from 0.
FixedCards(cards) ==
  Only({ [ i \in DOMAIN ordered |-> [ ordered[i] EXCEPT !.id = i - 1 ] ] :
           ordered \in
             { SortedMajorCards(MajorCards(unique_cards))
                 \o SortedMinorCards(SuitCards(unique_cards, FIX_SUIT_ORDER[1]))
                 \o SortedMinorCards(SuitCards(unique_cards, FIX_SUIT_ORDER[2]))
                 \o SortedMinorCards(SuitCards(unique_cards, FIX_SUIT_ORDER[3]))
                 \o SortedMinorCards(SuitCards(unique_cards, FIX_SUIT_ORDER[4])) :
               unique_cards \in { UniqueCards(cards) } } })

\* main of fix_tarot_json.py: a missing input ends the run; a count other
\* than 156 is only warned about, and the repaired list is written.
FixTarotJsonMain ==
  /\ IF ~cards_file.exists
     THEN /\ fix_exit' = "exit"
          /\ UNCHANGED fixed_file
     ELSE /\ fix_exit' = "ok"
          /\ fixed_file' = FileOf(FixedCards(cards_file.cards))
  /\ UNCHANGED << raw_file, raw_cards, proc_exit, proc_log, proc_runs, cards_file >>
  /\ UNCHANGED << processed_file, store_vars, loader_vars, query_vars >>

(***************************************************************************)
(* The vector store (Qdrant) as the code uses it: a list of collections,   *)
(* each with a vector size, a set of points and the number of the last     *)
(* update the store applied to it (the operation_id of its answer).        *)
(***************************************************************************)
\* [c.name for c in get_collections().collections]
CollectionNamesOf(store) == [ i \in DOMAIN store |-> store[i].name ]

HasCollection(store, name) == ListHas(CollectionNamesOf(store), name)

CollectionOf(store, name) == store[ListIndex(CollectionNamesOf(store), name) + 1]

\* create_collection(name, VectorParams(size, COSINE)): the store refuses a
\* name it already holds.
QdrantCreate(store, name, size) ==
  IF HasCollection(store, name)
  THEN [ ok |-> FALSE, store |-> store ]
  ELSE [ ok |-> TRUE,
         store |-> Append(store, [ name |-> name, size |-> size,
                                   distance |-> "Cosine", points |-> { },
                                   operation_id |-> 0 ]) ]

\* upsert(collection_name, points): a point replaces the stored point of the
\* same id; the store refuses an unknown collection and a vector of another
\* size than the collection's.
QdrantUpsert(store, name, points) ==
  IF ~HasCollection(store, name)
  THEN [ ok |-> FALSE, store |-> store ]
  ELSE LET c == ListIndex(CollectionNamesOf(store), name) + 1
           last == { points[i] : i \in { i \in DOMAIN points :
                       \A j \in DOMAIN points : j > i => points[j].id # points[i].id } }
           ids == { p.id : p \in last }
       IN IF \E p \in last : p.vector.len # store[c].size
          THEN [ ok |-> FALSE, store |-> store ]
          ELSE [ ok |-> TRUE,
                 store |-> [ store EXCEPT
                               ![c].points = { q \in @ : q.id \notin ids } \cup last,
                               ![c].operation_id = @ + 1 ] ]

\* Mutant: a collection of another size is replaced by an empty one of the
\* configured size.
EnsureCollection_Recreated(store, name, size) ==
  IF ~HasCollection(store, name)
  THEN [ ok |-> QdrantCreate(store, name, size).ok,
         created |-> TRUE,
         store |-> QdrantCreate(store, name, size).store ]
  ELSE IF \E i \in DOMAIN store : store[i].name = name /\ store[i].size # size
       THEN [ ok |-> TRUE, created |-> TRUE,
              store |-> [ i \in DOMAIN store |->
                            IF store[i].name = name
                            THEN [ store[i] EXCEPT !.size = size, !.points = { } ]
                            ELSE store[i] ] ]
       ELSE [ ok |-> TRUE, created |-> FALSE, store |-> store ]

\* Mutant: the collection is created without looking for it first.
EnsureCollection_NoCheck(store, name, size) ==
  [ ok |-> QdrantCreate(store, name, size).ok,
    created |-> TRUE,
    store |-> QdrantCreate(store, name, size).store ]

\* get_collections, then create_collection when the name is not listed
\* (data_pipeline.py lines 304-316, rag.py lines 93-106).  created: a create
\* request was sent.
EnsureCollection(store, name, size) ==
  IF ~HasCollection(store, name)
  THEN [ ok |-> QdrantCreate(store, name, size).ok,
         created |-> TRUE,
         store |-> QdrantCreate(store, name, size).store ]
  ELSE [ ok |-> TRUE, created |-> FALSE, store |-> store ]

(***************************************************************************)
(* The embedding providers: a model turns a text into a vector of the      *)
(* model's length.  A vector is kept as the text and model it came from.   *)
(***************************************************************************)
ProviderDim(model) ==
  CASE model = "nomic-embed-text" -> 768
    [] model = "text-embedding-3-small" -> 1536
    [] OTHER -> 3072

Vector(model, text) == [ model |-> model, text |-> text, len |-> ProviderDim(model) ]

VecLen(vector) == vector.len

(***************************************************************************)
(* The Embedder classes of data_pipeline.py.                               *)
(***************************************************************************)
EmbedderKinds == { "ollama", "openai" }

NoEmbedder == [ kind |-> "none", model |-> "", dimension |-> << >> ]

\* __init__: self._dimension = None.
NewEmbedder(kind, model) == [ kind |-> kind, model |-> model, dimension |-> << >> ]

Raised == [ ok |-> FALSE, vectors |-> << >> ]

\* OllamaEmbedder.get_embeddings: one request per text, appended in order;
\* when a request fails the error is raised and nothing is returned.
OllamaGetEmbeddings(e, texts, fails) ==
  IF fails /\ texts # << >>
  THEN Raised
  ELSE [ ok |-> TRUE,
         vectors |-> [ i \in DOMAIN texts |-> Vector(e.model, texts[i]) ] ]

\* OpenAIEmbedder.get_embeddings: one request for the whole list; the response
\* lists one item per input, in input order.
OpenAIGetEmbeddings(e, texts, fails) ==
  IF fails
  THEN Raised
  ELSE LET data == [ i \in DOMAIN texts |->
                       [ index |-> i - 1, embedding |-> Vector(e.model, texts[i]) ] ]
       IN [ ok |-> TRUE, vectors |-> [ i \in DOMAIN data |-> data[i].embedding ] ]

GetEmbeddings(e, texts, fails) ==
  IF e.kind = "ollama" THEN OllamaGetEmbeddings(e, texts, fails)
                       ELSE OpenAIGetEmbeddings(e, texts, fails)

ProbeText == << "test" >>

\* Mutant: the length of the probe's embedding is not kept.
GetDimension_NotCached(e, fails) ==
  LET r == GetEmbeddings(e, << ProbeText >>, fails)
  IN IF r.ok
     THEN [ ok |-> TRUE, value |-> VecLen(r.vectors[1]), probed |-> TRUE, embedder |-> e ]
     ELSE [ ok |-> FALSE, value |-> 0, probed |-> TRUE, embedder |-> e ]

\* get_dimension: the cached value, or the length of the embedding of "test",
\* which is then cached; nothing is cached when the probe fails.
\* probed: the call sent the probe to the provider.
GetDimension(e, fails) ==
  IF e.dimension # << >>
  THEN [ ok |-> TRUE, value |-> e.dimension[1], probed |-> FALSE, embedder |-> e ]
  ELSE LET r == GetEmbeddings(e, << ProbeText >>, fails)
       IN IF r.ok
          THEN [ ok |-> TRUE, value |-> VecLen(r.vectors[1]), probed |-> TRUE,
                 embedder |-> [ e EXCEPT !.dimension = << VecLen(r.vectors[1]) >> ] ]
          ELSE [ ok |-> FALSE, value |-> 0, probed |-> TRUE, embedder |-> e ]

NoDimCall ==
  [ n |-> 0, ok |-> FALSE, value |-> 0, probed |-> FALSE, good_probes |-> 0,
    first |-> << >> ]

\* What the caller of get_dimension has seen, this call included.
AfterDimCall(out, d) ==
  [ n |-> out.n + 1, ok |-> d.ok, value |-> d.value, probed |-> d.probed,
    good_probes |-> out.good_probes + (IF d.probed /\ d.ok THEN 1 ELSE 0),
    first |-> IF out.first = << >> /\ d.ok THEN << d.value >> ELSE out.first ]

(***************************************************************************)
(* main and step_embed_and_upload of data_pipeline.py.                     *)
(***************************************************************************)
DefaultModel(kind) ==
  IF kind = "ollama" THEN "nomic-embed-text" ELSE "text-embedding-3-small"

\* s.replace(old, new) for one-character old and new.
ReplaceChar(s, old, new) == [ i \in DOMAIN s |-> IF s[i] = old THEN new ELSE s[i] ]

\* f"tarot_{args.embedder}_{model_name.replace(':', '_').replace('/', '_')}"
DefaultCollectionName(kind, model) ==
  CHOOSE n \in DOMAIN Spelling :
    Spelling[n] = Chars("tarot_") \o Chars(kind) \o Chars("_")
                    \o ReplaceChar(ReplaceChar(Chars(model), ":", "_"), "/", "_")

\* f"{card['name']} ({card['orientation']}): {card['meaning']}"
CardText(card) == << card.name, " (", card.orientation, "): ", card.meaning >>

Min(a, b) == IF a <= b THEN a ELSE b

\* Mutant: a batch starts one text late.
Batch_OneLate(texts, i) == SubSeq(texts, i + 2, Min(i + BatchSize, Len(texts)))

\* texts_to_embed[i:i+batch_size]
Batch(texts, i) == SubSeq(texts, i + 1, Min(i + BatchSize, Len(texts)))

\* range(0, len(texts_to_embed), batch_size), as a list
BatchStarts(n) == [ b \in 1..((n + BatchSize - 1) \div BatchSize) |-> (b - 1) * BatchSize ]

\* Lines 329-333: the embeddings of the batches, one after the other; batch
\* number fail_batch (0: none) raises.
RECURSIVE Extended(_, _, _, _)
Extended(e, texts, starts, b) ==
  IF b = 0 THEN << >>
  ELSE Extended(e, texts, starts, b - 1)
         \o GetEmbeddings(e, Batch(texts, starts[b]), FALSE).vectors

AllEmbeddings(e, texts, fail_batch) ==
  LET starts == BatchStarts(Len(texts))
  IN IF fail_batch \in DOMAIN starts
     THEN Raised
     ELSE [ ok |-> TRUE, vectors |-> Extended(e, texts, starts, Len(starts)) ]

\* Mutant: the point ids are counted on from the points already stored.
PointsOf_CountedOn(cards, all_embeddings) ==
  LET stored == IF HasCollection(collections, collection_name)
                THEN Cardinality(CollectionOf(collections, collection_name).points)
                ELSE 0
  IN [ k \in 1..Min(Len(cards), Len(all_embeddings)) |->
         [ id |-> stored + k - 1, vector |-> all_embeddings[k], payload |-> cards[k] ] ]

\* Lines 336-344: zip(cards, all_embeddings) into PointStruct(id, vector, payload).
PointsOf(cards, all_embeddings) ==
  [ k \in 1..Min(Len(cards), Len(all_embeddings)) |->
      [ id |-> cards[k].id, vector |-> all_embeddings[k], payload |-> cards[k] ] ]

\* main, lines 389-405: a run of the pipeline starts with a new embedder and
\* its collection name; nothing of an earlier run is left but the files and
\* the store.
MainStart(kind, collection_arg) ==
  /\ embedder' = NewEmbedder(kind, DefaultModel(kind))
  /\ collection_name' = IF collection_arg # ""
                        THEN collection_arg
                        ELSE DefaultCollectionName(kind, DefaultModel(kind))
  /\ emb_in' = << >>
  /\ emb_out' = Raised
  /\ dim_out' = NoDimCall
  /\ load_exit' = "none"
  /\ UNCHANGED << builder_vars, processed_file, store_vars, load_runs, prep_vars,
                  query_vars >>

\* A call of the running pipeline's embedder, before its upload step.
EmbedderGetDimension(fails) ==
  /\ embedder.kind # "none"
  /\ load_exit = "none"
  /\ dim_out.n < MaxDimCalls
  /\ \E d \in { GetDimension(embedder, fails) } :
       /\ embedder' = d.embedder
       /\ dim_out' = AfterDimCall(dim_out, d)
  /\ UNCHANGED << builder_vars, processed_file, store_vars, collection_name,
                  emb_in, emb_out, load_exit, load_runs, prep_vars, query_vars >>

EmbedderGetEmbeddings(texts, fails) ==
  /\ embedder.kind # "none"
  /\ load_exit = "none"
  /\ emb_in' = texts
  /\ emb_out' = GetEmbeddings(embedder, texts, fails)
  /\ UNCHANGED << builder_vars, processed_file, store_vars, embedder,
                  collection_name, dim_out, load_exit, load_runs, prep_vars,
                  query_vars >>

\* step_embed_and_upload, once in a run of main.
StepEmbedAndUpload(dim_fail, fail_batch, upsert_fail) ==
  /\ embedder.kind # "none"
  /\ load_exit = "none"
  /\ load_runs < MaxLoads
  /\ load_runs' = load_runs + 1
  /\ UNCHANGED << builder_vars, processed_file, qdrant_up, collection_name,
                  emb_in, emb_out, prep_vars, query_vars >>
  /\ IF ~processed_file.exists
     THEN /\ load_exit' = "exit1"
          /\ UNCHANGED << embedder, dim_out, collections >>
     ELSE \E d \in { GetDimension(embedder, dim_fail) } :
       IF ~d.ok
       THEN /\ load_exit' = "raised"
            /\ dim_out' = AfterDimCall(dim_out, d)
            /\ UNCHANGED << embedder, collections >>
       ELSE
         /\ embedder' = d.embedder
         /\ dim_out' = AfterDimCall(dim_out, d)
         /\ IF ~qdrant_up
            THEN /\ load_exit' = "exit1"
                 /\ UNCHANGED collections
            ELSE \E ensured \in { EnsureCollection(collections, collection_name,
                                                    d.value).store } :
                 \E emb \in { AllEmbeddings(d.embedder,
                                [ i \in DOMAIN processed_file.cards |->
                                    CardText(processed_file.cards[i]) ],
                                fail_batch) } :
                   IF ~emb.ok
                   THEN /\ load_exit' = "raised"
                        /\ collections' = ensured
                   ELSE \E up \in { QdrantUpsert(ensured, collection_name,
                                      PointsOf(processed_file.cards, emb.vectors)) } :
                          IF upsert_fail \/ ~up.ok
                          THEN /\ load_exit' = "raised"
                               /\ collections' = ensured
                          ELSE /\ load_exit' = "ok"
                               /\ collections' = up.store

\* The store stops answering, or answers again, between two requests.
(***************************************************************************)
(* prepare_tarot_embeddings_ollama_simple.py: the older loader, which      *)
(* embeds data/tarot_cards.json card by card and writes the points to the  *)
(* store in batches.                                                       *)
(***************************************************************************)
PREPARE_MODEL == "nomic-embed-text"

\* f"tarot_cards_ollama_{MODEL_NAME.replace(':', '_')}"
PREPARE_COLLECTION ==
  CHOOSE n \in DOMAIN Spelling :
    Spelling[n] = Chars("tarot_cards_ollama_")
                    \o ReplaceChar(Chars(PREPARE_MODEL), ":", "_")

\* ensure_collection_exists: the collection is created when the store does
\* not know it.
EnsureCollectionExists(store, name, vector_size) ==
  IF HasCollection(store, name) THEN store
  ELSE QdrantCreate(store, name, vector_size).store

\* Lines 226-244: a point for every card whose embedding did not fail; the
\* failure of a card is printed and the loop goes on.
PreparePoints(cards, failed) ==
  Only({ [ k \in DOMAIN kept |->
             [ id |-> kept[k].id,
               vector |-> Vector(PREPARE_MODEL, CardText(kept[k])),
               payload |-> kept[k] ] ] :
           kept \in { Subsequence(cards, DOMAIN cards \ failed) } })

\* range(0, len(points), batch_size), counted from 1.
NumBatches(points) == (Len(points) + UploadBatchSize - 1) \div UploadBatchSize

BatchFirst(k) == (k - 1) * UploadBatchSize + 1

BatchLast(points, k) == Min(k * UploadBatchSize, Len(points))

\* The loop of upload_points_batch up to batch k: a batch is PUT when all the
\* batches before it were written; the PUT of batch fail_batch fails, and so
\* does one that the store refuses.
RECURSIVE Uploaded(_, _, _, _, _)
Uploaded(store, name, points, k, fail_batch) ==
  IF k = 0 THEN [ ok |-> TRUE, store |-> store, puts |-> << >> ]
  ELSE Only({ IF ~before.ok THEN before
              ELSE IF k = fail_batch \/ ~put.ok
              THEN [ ok |-> FALSE, store |-> before.store,
                     puts |-> Append(before.puts,
                                     [ first |-> BatchFirst(k),
                                       last |-> BatchLast(points, k), ok |-> FALSE ]) ]
              ELSE [ ok |-> TRUE, store |-> put.store,
                     puts |-> Append(before.puts,
                                     [ first |-> BatchFirst(k),
                                       last |-> BatchLast(points, k), ok |-> TRUE ]) ] :
              before \in { Uploaded(store, name, points, k - 1, fail_batch) },
              put \in { QdrantUpsert(Uploaded(store, name, points, k - 1, fail_batch).store,
                                     name,
                                     SubSeq(points, BatchFirst(k), BatchLast(points, k))) } })

\* Mutant: a failed batch takes back the batches written before it.
UploadPointsBatch_RolledBack(store, name, points, fail_batch) ==
  Only({ IF up.ok THEN up ELSE [ up EXCEPT !.store = store ] :
           up \in { Uploaded(store, name, points, NumBatches(points), fail_batch) } })

\* upload_points_batch(collection_name, points).
UploadPointsBatch(store, name, points, fail_batch) ==
  Uploaded(store, name, points, NumBatches(points), fail_batch)

\* main: the checks of Ollama and of the store, the cards, the dimension,
\* the collection, a point per card, the upload.  failed: the places of the
\* cards whose embedding request fails; fail_batch: the batch whose PUT fails,
\* 0 for none.
PrepareMain(ollama_up, dim_fail, failed, fail_batch) ==
  /\ prep_runs < MaxPreps
  /\ prep_runs' = prep_runs + 1
  /\ UNCHANGED << builder_vars, processed_file, qdrant_up, embedder, collection_name,
                  emb_in, emb_out, dim_out, load_exit, load_runs, query_vars >>
  /\ IF ~ollama_up \/ ~qdrant_up \/ ~cards_file.exists \/ dim_fail
     THEN /\ prep_exit' = "exit1"
          /\ prep_failed' = { }
          /\ prep_puts' = << >>
          /\ UNCHANGED collections
     ELSE \E ensured \in { EnsureCollectionExists(collections, PREPARE_COLLECTION,
                                                  ProviderDim(PREPARE_MODEL)) } :
          \E points \in { PreparePoints(cards_file.cards, failed) } :
            /\ prep_failed' = failed \cap DOMAIN cards_file.cards
            /\ IF points = << >>
               THEN /\ prep_exit' = "exit1"
                    /\ prep_puts' = << >>
                    /\ collections' = ensured
               ELSE \E up \in { UploadPointsBatch(ensured, PREPARE_COLLECTION,
                                                  points, fail_batch) } :
                      /\ prep_exit' = IF up.ok THEN "ok" ELSE "exit1"
                      /\ prep_puts' = up.puts
                      /\ collections' = up.store

\* prepare_tarot_embeddings_ollama.py, qdrant.upsert(collection_name,
\* wait=True, points=points): all the points go out in one request.
UpsertPoints(store, name, points, upsert_fails) ==
  Only({ IF upsert_fails \/ ~put.ok
         THEN [ ok |-> FALSE, store |-> store,
                puts |-> << [ first |-> 1, last |-> Len(points), ok |-> FALSE ] >> ]
         ELSE [ ok |-> TRUE, store |-> put.store,
                puts |-> << [ first |-> 1, last |-> Len(points), ok |-> TRUE ] >> ] :
         put \in { QdrantUpsert(store, name, points) } })

\* main of prepare_tarot_embeddings_ollama.py: the check of Ollama, the cards,
\* the dimension, the collection, a point per card whose embedding did not
\* fail, one upsert.  The store is first asked at the collection step.
PrepareOllamaMain(ollama_up, dim_fail, failed, upsert_fails) ==
  /\ prep_runs < MaxPreps
  /\ prep_runs' = prep_runs + 1
  /\ UNCHANGED << builder_vars, processed_file, qdrant_up, embedder, collection_name,
                  emb_in, emb_out, dim_out, load_exit, load_runs, query_vars >>
  /\ IF ~ollama_up \/ ~cards_file.exists \/ dim_fail \/ ~qdrant_up
     THEN /\ prep_exit' = "exit1"
          /\ prep_failed' = { }
          /\ prep_puts' = << >>
          /\ UNCHANGED collections
     ELSE \E ensured \in { EnsureCollection(collections, PREPARE_COLLECTION,
                                            ProviderDim(PREPARE_MODEL)).store } :
          \E points \in { PreparePoints(cards_file.cards, failed) } :
            /\ prep_failed' = failed \cap DOMAIN cards_file.cards
            /\ IF points = << >>
               THEN /\ prep_exit' = "exit1"
                    /\ prep_puts' = << >>
                    /\ collections' = ensured
               ELSE \E up \in { UpsertPoints(ensured, PREPARE_COLLECTION,
                                             points, upsert_fails) } :
                      /\ prep_exit' = IF up.ok THEN "ok" ELSE "exit1"
                      /\ prep_puts' = up.puts
                      /\ collections' = up.store

QdrantGoesDown ==
  /\ qdrant_up
  /\ qdrant_up' = FALSE
  /\ http.status = 0
  /\ UNCHANGED << builder_vars, processed_file, collections, loader_vars, query_vars >>

QdrantComesUp ==
  /\ ~qdrant_up
  /\ qdrant_up' = TRUE
  /\ http.status = 0
  /\ UNCHANGED << builder_vars, processed_file, collections, loader_vars, query_vars >>

(***************************************************************************)
(* services/rag.py and the /rag/query endpoint of app.py.  A score is kept *)
(* as an integer, in units of 0.00001.                                     *)
(***************************************************************************)
COLLECTION_NAME == "tarot_cards_ollama_nomic-embed-text"

OLLAMA_MODEL == "nomic-embed-text"

\* agents/tools.py: the collection that the TarotReader tool searches.
TarotReaderCollection == "tarot_cards_ollama_nomic-embed-text"

OLLAMA_EMBEDDING_DIM == 768

OPENAI_EMBEDDING_MODEL == "text-embedding-3-large"

OPENAI_EMBEDDING_DIM == 3072

SIMILARITY_THRESHOLD == 50000

\* round(score, 4): to the nearest multiple of 0.0001, a half to the even one.
Round4(score) ==
  LET q == score \div 10
      r == score % 10
  IN IF r > 5 \/ (r = 5 /\ q % 2 = 1) THEN (q + 1) * 10 ELSE q * 10

NoService ==
  [ state |-> "none", client |-> FALSE, ollama_enabled |-> TRUE,
    embedding_dim |-> OLLAMA_EMBEDDING_DIM ]

\* RAGService.__init__ at the import of services.rag: the embedding provider,
\* with the fall back to OpenAI, then the connection to the store.  An import
\* that raises leaves no service, and the next use imports again.
NewService(ollama_env, ollama_up, openai_key, store_up) ==
  IF ollama_env /\ ollama_up
  THEN [ state |-> "ready", client |-> store_up, ollama_enabled |-> TRUE,
         embedding_dim |-> OLLAMA_EMBEDDING_DIM ]
  ELSE IF openai_key
       THEN [ state |-> "ready", client |-> store_up, ollama_enabled |-> FALSE,
              embedding_dim |-> OPENAI_EMBEDDING_DIM ]
       ELSE NoService

\* What the environment of an import can be: OLLAMA_ENABLED, whether Ollama
\* answers, whether OPENAI_API_KEY is set.
ImportInputs == BOOLEAN \X BOOLEAN \X BOOLEAN

\* from services.rag import rag_service
Imported(service, env, store_up) ==
  IF service.state = "ready" THEN service
  ELSE NewService(env[1], env[2], env[3], store_up)

\* generate_embedding: the Ollama embedding of the text; the OpenAI branch
\* awaits the answer of a synchronous client, which raises.
GenerateEmbedding(service, text, fails) ==
  IF service.ollama_enabled /\ ~fails
  THEN [ ok |-> TRUE, vectors |-> << Vector(OLLAMA_MODEL, text) >> ]
  ELSE Raised

\* The provider and the model that generate_embedding turns to.
ProviderInUse(service) == IF service.ollama_enabled THEN "ollama" ELSE "openai"

ModelInUse(service) ==
  IF service.ollama_enabled THEN OLLAMA_MODEL ELSE OPENAI_EMBEDDING_MODEL

\* Mutant: every key of filter_params becomes a condition.
SearchFilter_EveryKey(filter_params) ==
  IF filter_params = << >> \/ filter_params[1] = { }
  THEN << >>
  ELSE << filter_params[1] >>

\* Lines 155-174.  filter_params is None, << >>, or a dict, << items >>; the
\* filter is None, << >>, or Filter(must=conditions), << conditions >>.  A
\* condition is the key and the value its field has to match.
SearchFilter(filter_params) ==
  IF filter_params = << >> \/ filter_params[1] = { }
  THEN << >>
  ELSE LET conditions ==
             { c \in filter_params[1] : c[1] = "arcana" }
               \cup { c \in filter_params[1] : c[1] = "orientation" }
       IN IF conditions # { } THEN << conditions >> ELSE << >>

\* The store's reading of query_filter: every condition of must holds of
\* the point's payload; no filter excludes no point.
Matches(point, search_filter) ==
  \/ search_filter = << >>
  \/ \A c \in search_filter[1] : point.payload[c[1]] = c[2]

\* The sequences of k different elements of S.
RECURSIVE Arrangements(_, _)
Arrangements(S, k) ==
  IF k = 0 THEN { << >> }
  ELSE UNION { { Append(a, x) : x \in S \ Range(a) } : a \in Arrangements(S, k - 1) }

\* Mutant: the store answers with every matching point.
QdrantSearch_NoLimit(store, name, query_vector, scoring, limit, search_filter) ==
  IF ~HasCollection(store, name)
     \/ VecLen(query_vector) # CollectionOf(store, name).size
  THEN { [ ok |-> FALSE, hits |-> << >> ] }
  ELSE LET matching == { p \in CollectionOf(store, name).points :
                           Matches(p, search_filter) }
       IN { [ ok |-> TRUE,
              hits |-> [ i \in DOMAIN a |->
                           [ id |-> a[i].id, score |-> scoring[a[i].id],
                             payload |-> a[i].payload ] ] ] :
            a \in { b \in Arrangements(matching, Cardinality(matching)) :
                      \A i, j \in DOMAIN b :
                        i < j => scoring[b[i].id] >= scoring[b[j].id] } }

\* client.search(collection_name, query_vector, limit, query_filter): the
\* answers the store can give, the limit best-scored matching points, best
\* first, equal scores in any order.  scoring is the similarity of each point
\* to the query vector.  The store refuses an unknown collection and a query
\* vector of another size than the collection's.  What it does with a limit
\* below 1 is the store's affair: it refuses, or it answers with no point.
QdrantSearch(store, name, query_vector, scoring, limit, search_filter) ==
  IF ~HasCollection(store, name)
     \/ VecLen(query_vector) # CollectionOf(store, name).size
  THEN { [ ok |-> FALSE, hits |-> << >> ] }
  ELSE IF limit < 1
  THEN { [ ok |-> FALSE, hits |-> << >> ], [ ok |-> TRUE, hits |-> << >> ] }
  ELSE LET matching == { p \in CollectionOf(store, name).points :
                           Matches(p, search_filter) }
       IN { [ ok |-> TRUE,
              hits |-> [ i \in DOMAIN a |->
                           [ id |-> a[i].id, score |-> scoring[a[i].id],
                             payload |-> a[i].payload ] ] ] :
            a \in { b \in Arrangements(matching, Min(limit, Cardinality(matching))) :
                      /\ \A i, j \in DOMAIN b :
                           i < j => scoring[b[i].id] >= scoring[b[j].id]
                      /\ \A p \in matching \ Range(b) :
                           \A i \in DOMAIN b : scoring[b[i].id] >= scoring[p.id] } }

\* result = scored_point.payload; result["score"] = round(score, 4)
ResultOf(scored_point) ==
  [ k \in DOMAIN scored_point.payload \cup { "score" } |->
      IF k = "score" THEN Round4(scored_point.score) ELSE scored_point.payload[k] ]

\* Mutant: every scored point is kept.
FormatResults_KeepAll(hits) == [ i \in DOMAIN hits |-> ResultOf(hits[i]) ]

\* Lines 186-193: the scored points at or above the threshold, in the order of
\* the answer.
RECURSIVE FormatResults(_)
FormatResults(hits) ==
  IF hits = << >> THEN << >>
  ELSE IF hits[Len(hits)].score >= SIMILARITY_THRESHOLD
       THEN Append(FormatResults(SubSeq(hits, 1, Len(hits) - 1)),
                   ResultOf(hits[Len(hits)]))
       ELSE FormatResults(SubSeq(hits, 1, Len(hits) - 1))

NoSearch == [ ok |-> FALSE, hits |-> << >> ]

NoRequest == [ text |-> << >>, limit |-> 0, filter_params |-> << >> ]

NoResult == [ returned |-> FALSE, raised |-> "", results |-> << >> ]

QueryRaised(error) == [ returned |-> FALSE, raised |-> error, results |-> << >> ]

QueryReturned(results) == [ returned |-> TRUE, raised |-> "", results |-> results ]

NoAnswer == [ status |-> 0, results |-> << >>, count |-> 0 ]

\* rag_query, lines 207-215: the answer to what the query returned or raised.
Answer(out) ==
  IF out.raised = "ConnectionError" THEN [ status |-> 503, results |-> << >>, count |-> 0 ]
  ELSE IF ~out.returned THEN [ status |-> 500, results |-> << >>, count |-> 0 ]
  ELSE [ status |-> 200, results |-> out.results, count |-> Len(out.results) ]

\* The similarities the points of a collection can have to a query vector.
ScoreValues == { 49999, 50000, 70001, 70004 }

Scorings(store, name) ==
  IF HasCollection(store, name)
  THEN [ { p.id : p \in CollectionOf(store, name).points } -> ScoreValues ]
  ELSE { << >> }

\* The environments an import is tried in: none when the service is there.
ImportsOf(service) ==
  IF service.state = "ready" THEN { << TRUE, TRUE, TRUE >> } ELSE ImportInputs

\* POST /rag/query: rag_query of app.py and RAGService.query, from the import
\* of the service to the answer.
\* Mutant: a limit below 1 is replaced by the default of the signature.
LimitPassed_Defaulted(limit) == IF limit < 1 THEN 5 ELSE limit

\* limit=limit, line 180: the limit of the search is the limit of the call.
LimitPassed(limit) == limit

\* The record of a request to the embedding provider, line 153.
EmbedCall(emb) ==
  [ to |-> "embed", ok |-> emb.ok,
    dim |-> IF emb.ok THEN VecLen(emb.vectors[1]) ELSE 0, limit |-> 0 ]

\* Mutant: a failed embedding request is sent a second time.
EmbeddingRequests_Retried(emb) ==
  IF emb.ok THEN << EmbedCall(emb) >> ELSE << EmbedCall(emb), EmbedCall(emb) >>

\* embedding = await self.generate_embedding(text): the one POST of
\* generate_ollama_embedding, whose failure is raised as it comes.
EmbeddingRequests(emb) == << EmbedCall(emb) >>

\* The record of a request to the store, lines 177-182.
SearchCall(query_vector, limit, search_filter, ok) ==
  [ to |-> "search", ok |-> ok, dim |-> VecLen(query_vector), limit |-> limit,
    query_filter |-> search_filter ]

RagQuery(text, limit, filter_params) ==
  /\ http.status = 0
  /\ rag_in' = [ text |-> text, limit |-> limit, filter_params |-> filter_params ]
  /\ UNCHANGED << builder_vars, processed_file, store_vars, loader_vars, ensure_log,
                  inflight, tool, app_vars >>
  /\ \E env \in ImportsOf(rag) :
     \E service \in { Imported(rag, env, qdrant_up) } :
       /\ rag' = service
       /\ IF service.state # "ready"
          THEN /\ search_result' = NoSearch
               /\ rag_out' = QueryRaised("ValueError")
               /\ rag_calls' = << >>
          ELSE IF ~service.client
          THEN /\ search_result' = NoSearch
               /\ rag_out' = QueryRaised("ConnectionError")
               /\ rag_calls' = << >>
          ELSE \E embed_fails \in BOOLEAN :
               \E emb \in { GenerateEmbedding(service, text, embed_fails) } :
                 IF ~emb.ok
                 THEN /\ search_result' = NoSearch
                      /\ rag_out' = QueryRaised("Exception")
                      /\ rag_calls' = EmbeddingRequests(emb)
                 ELSE IF ~qdrant_up
                 THEN /\ search_result' = NoSearch
                      /\ rag_out' = QueryRaised("Exception")
                      /\ rag_calls' = EmbeddingRequests(emb)
                                         \o << SearchCall(emb.vectors[1],
                                                          LimitPassed(limit),
                                                          SearchFilter(filter_params),
                                                          FALSE) >>
                 ELSE \E scoring \in Scorings(collections, COLLECTION_NAME) :
                      \E found \in QdrantSearch(collections, COLLECTION_NAME,
                                                emb.vectors[1], scoring,
                                                LimitPassed(limit),
                                                SearchFilter(filter_params)) :
                        /\ search_result' = found
                        /\ rag_out' = IF found.ok
                                      THEN QueryReturned(FormatResults(found.hits))
                                      ELSE QueryRaised("Exception")
                        /\ rag_calls' = EmbeddingRequests(emb)
                                           \o << SearchCall(emb.vectors[1],
                                                            LimitPassed(limit),
                                                            SearchFilter(filter_params),
                                                            found.ok) >>
  /\ http' = Answer(rag_out')

\* The answer has gone to the caller; the request is over.
AnswerSent ==
  /\ http.status # 0
  /\ rag_in' = NoRequest
  /\ search_result' = NoSearch
  /\ rag_out' = NoResult
  /\ rag_calls' = << >>
  /\ http' = NoAnswer
  /\ UNCHANGED << builder_vars, processed_file, store_vars, loader_vars, rag, ensure_log,
                  inflight, tool, app_vars >>

\* rag_service.create_collection_if_not_exists(), as testing/rag_test.py
\* calls it after the import of the service.
CreateCollectionIfNotExists ==
  /\ http.status = 0
  /\ Len(ensure_log) < MaxEnsures
  /\ UNCHANGED << builder_vars, processed_file, qdrant_up, loader_vars,
                  rag_in, search_result, rag_out, rag_calls, http, inflight, tool, app_vars >>
  /\ \E env \in ImportsOf(rag) :
     \E service \in { Imported(rag, env, qdrant_up) } :
       /\ service.state = "ready"
       /\ rag' = service
       /\ IF ~service.client \/ ~qdrant_up
          THEN /\ collections' = collections
               /\ ensure_log' = Append(ensure_log,
                                  [ up |-> qdrant_up, client |-> service.client,
                                    ok |-> FALSE, created |-> FALSE ])
          ELSE \E e \in { EnsureCollection(collections, COLLECTION_NAME,
                                           service.embedding_dim) } :
                 /\ collections' = e.store
                 /\ ensure_log' = Append(ensure_log,
                                    [ up |-> TRUE, client |-> TRUE,
                                      ok |-> e.ok, created |-> e.created ])

\* The app process ends between two requests; the next use of the service
\* imports services.rag afresh, in the environment of that moment.
AppRestart ==
  /\ http.status = 0
  /\ rag.state = "ready"
  /\ rag' = NoService
  /\ UNCHANGED << builder_vars, processed_file, store_vars, loader_vars,
                  ensure_log, rag_in, search_result, rag_out, rag_calls, http, inflight, tool, app_vars >>

(***************************************************************************)
(* RAGService.query as the coroutine it is: it is suspended once, at the   *)
(* await of the embedding request (httpx.AsyncClient, line 122), and the   *)
(* search and the formatting follow without another await.  Two callers    *)
(* share the one service of the process.                                   *)
(***************************************************************************)
Callers == { "first", "second" }

NoCall == [ pc |-> "idle", text |-> << >>, limit |-> 0, out |-> NoResult ]

\* The texts of the two callers' questions.
ConcurrentTexts == { << "What does my future hold?" >>, << "Will I find love?" >> }

\* The similarity of a stored point to the embedding of a text: the same for
\* every search with that text.  The two texts rank the points differently.
SimilarityTo(text, store, name) ==
  IF HasCollection(store, name)
  THEN [ id \in { p.id : p \in CollectionOf(store, name).points } |->
           IF text = << "What does my future hold?" >>
           THEN (IF id % 2 = 0 THEN 70004 ELSE 49999)
           ELSE (IF id < 2 THEN 50000 ELSE 70001) ]
  ELSE << >>

\* Mutant: the text to embed is kept on the shared service, so that a
\* coroutine resumes with the text of the other caller in flight.
TextEmbedded_OnService(calls, c) ==
  IF \E d \in Callers \ { c } : calls[d].pc = "embedding"
  THEN calls[CHOOSE d \in Callers \ { c } : calls[d].pc = "embedding"].text
  ELSE calls[c].text

\* The parameter `text` of the coroutine of caller c.
TextEmbedded(calls, c) == calls[c].text

\* query up to its await: the import of the service, the check of the
\* client, the embedding request sent.
QueryStart(c, text, limit) ==
  /\ inflight[c].pc = "idle"
  /\ UNCHANGED << builder_vars, processed_file, store_vars, loader_vars, ensure_log,
                  rag_in, search_result, rag_out, rag_calls, http, tool, app_vars >>
  /\ \E env \in ImportsOf(rag) :
     \E service \in { Imported(rag, env, qdrant_up) } :
       /\ rag' = service
       /\ inflight' =
            [ inflight EXCEPT
                ![c] = IF service.state # "ready"
                       THEN [ pc |-> "done", text |-> text, limit |-> limit,
                              out |-> QueryRaised("ValueError") ]
                       ELSE IF ~service.client
                       THEN [ pc |-> "done", text |-> text, limit |-> limit,
                              out |-> QueryRaised("ConnectionError") ]
                       ELSE [ pc |-> "embedding", text |-> text, limit |-> limit,
                              out |-> NoResult ] ]

\* query from the answer of the embedding request to its return.
QueryResume(c, embed_fails) ==
  /\ inflight[c].pc = "embedding"
  /\ UNCHANGED << builder_vars, processed_file, store_vars, loader_vars, rag,
                  ensure_log, rag_in, search_result, rag_out, rag_calls, http, tool, app_vars >>
  /\ \E text \in { TextEmbedded(inflight, c) } :
     \E emb \in { GenerateEmbedding(rag, text, embed_fails) } :
       IF ~emb.ok \/ ~qdrant_up
       THEN inflight' = [ inflight EXCEPT ![c].pc = "done",
                                          ![c].out = QueryRaised("Exception") ]
       ELSE \E found \in QdrantSearch(collections, COLLECTION_NAME, emb.vectors[1],
                                      SimilarityTo(text, collections, COLLECTION_NAME),
                                      LimitPassed(inflight[c].limit),
                                      SearchFilter(<< >>)) :
              inflight' =
                [ inflight EXCEPT
                    ![c].pc = "done",
                    ![c].out = IF found.ok
                               THEN QueryReturned(FormatResults(found.hits))
                               ELSE QueryRaised("Exception") ]

\* The caller has its answer.
QueryReturn(c) ==
  /\ inflight[c].pc = "done"
  /\ inflight' = [ inflight EXCEPT ![c] = NoCall ]
  /\ UNCHANGED << builder_vars, processed_file, store_vars, loader_vars, rag,
                  ensure_log, rag_in, search_result, rag_out, rag_calls, http, tool, app_vars >>

(***************************************************************************)
(* agents/tools.py: _run_tarot_tool, the TarotReader tool of the agent.    *)
(***************************************************************************)
TAROT_TOOL_LIMIT == 3

NoToolRun ==
  [ out |-> "none", searched |-> FALSE, hits |-> << >>, prompt |-> << >>,
    llm_called |-> FALSE ]

\* Mutant: an empty answer of the search goes on to the prompt.
NoCardFound_Never(search_results) == FALSE

\* if not search_results, line 61.
NoCardFound(search_results) == search_results = << >>

\* Lines 65-71: a line of context for every result of the search.
RetrievedCardsInfo(search_results) ==
  [ i \in DOMAIN search_results |->
      [ name |-> search_results[i].payload.name,
        orientation |-> search_results[i].payload.orientation,
        meaning |-> search_results[i].payload.meaning,
        score |-> search_results[i].score ] ]

\* What the tool returns when something raised, line 95-97.
ToolError ==
  [ out |-> "error", searched |-> FALSE, hits |-> << >>, prompt |-> << >>,
    llm_called |-> FALSE ]

\* _run_tarot_tool(query): the embedding of the query by OllamaEmbeddings,
\* the search of the store with limit 3 and no filter, the no-match message
\* for an empty answer, else the prompt with every card found and the
\* chat completion.  Whatever raises is returned as an error text.
RunTarotTool(query, embed_fails, llm_fails) ==
  /\ UNCHANGED << builder_vars, processed_file, store_vars, loader_vars, rag,
                  ensure_log, rag_in, search_result, rag_out, rag_calls, http,
                  inflight, app_vars >>
  /\ IF embed_fails \/ ~qdrant_up
     THEN tool' = ToolError
     ELSE \E scoring \in Scorings(collections, TarotReaderCollection) :
          \E found \in QdrantSearch(collections, TarotReaderCollection,
                                    Vector(OLLAMA_MODEL, query), scoring,
                                    TAROT_TOOL_LIMIT, << >>) :
            tool' =
              IF ~found.ok THEN ToolError
              ELSE IF NoCardFound(found.hits)
              THEN [ out |-> "no_match", searched |-> TRUE, hits |-> found.hits,
                     prompt |-> << >>, llm_called |-> FALSE ]
              ELSE [ out |-> IF llm_fails THEN "error" ELSE "reading",
                     searched |-> TRUE, hits |-> found.hits,
                     prompt |-> RetrievedCardsInfo(found.hits),
                     llm_called |-> TRUE ]

(***************************************************************************)
(* app.py: the webhook and its message handlers; agents/langchain_agent.py:*)
(* invoke_agent and the memories of the users.                             *)
(***************************************************************************)
MaxEvents == 2

\* The reply tokens of the events: every event has its own.
Tokens == 1..MaxEvents

Users == { "U1", "U2" }

MessageKinds == { "text", "image", "audio" }

\* What a text is to handle_text_message: a menu keyword, a zodiac sign with
\* a fortune keyword, or anything else.
TextClasses == { "menu", "zodiac", "general" }

NoEvent ==
  [ pc |-> "none", kind |-> "", user_id |-> "", text |-> "", memory |-> 0,
    raised |-> FALSE, replies |-> << >> ]

\* line_bot_api.reply_message(ReplyMessageRequest(reply_token=event.reply_token,
\* ...)): a reply call for the token of the event.
ReplyMessage(event, message) == [ event EXCEPT !.replies = Append(@, message) ]

\* Mutant: a memory is made for every call.
GetMemory_AlwaysNew(um, mems, user_id) ==
  [ user_memories |-> [ um EXCEPT ![user_id] = << Len(mems) + 1 >> ],
    memories |-> Append(mems, [ user_id |-> user_id, saved |-> << >> ]),
    memory |-> Len(mems) + 1 ]

\* invoke_agent, lines 132-137: the memory of the user, made when
\* user_memories does not hold one.  memory: its place in `memories`.
GetMemory(um, mems, user_id) ==
  IF um[user_id] = << >>
  THEN [ user_memories |-> [ um EXCEPT ![user_id] = << Len(mems) + 1 >> ],
         memories |-> Append(mems, [ user_id |-> user_id, saved |-> << >> ]),
         memory |-> Len(mems) + 1 ]
  ELSE [ user_memories |-> um, memories |-> mems, memory |-> um[user_id][1] ]

\* callback: a message event of the request becomes a background task.
Callback(t, kind, user_id, text) ==
  /\ events[t].pc = "none"
  /\ events' = [ events EXCEPT ![t] = [ NoEvent EXCEPT !.pc = "queued", !.kind = kind,
                                                     !.user_id = user_id,
                                                     !.text = text ] ]
  /\ UNCHANGED << builder_vars, processed_file, store_vars, loader_vars, rag,
                  ensure_log, rag_in, search_result, rag_out, rag_calls, http,
                  inflight, tool, user_memories, memories, tarot_service, draw_out >>

\* A handler from its start to the await of agent_executor.ainvoke, or to its
\* end when it does not get there.  handle_text_message answers a menu
\* keyword itself; handle_image_message and handle_audio_message fetch the
\* content first, and handle_audio_message transcribes it.  The except
\* branch of handle_text_message and handle_image_message replies with an
\* apology; the one of handle_audio_message returns a text to nobody.
HandlerStart(t, content_ok, transcript_ok) ==
  /\ events[t].pc = "queued"
  /\ UNCHANGED << builder_vars, processed_file, store_vars, loader_vars, rag,
                  ensure_log, rag_in, search_result, rag_out, rag_calls, http,
                  inflight, tool, tarot_service, draw_out >>
  /\ \E e \in { events[t] } :
     \E m \in { GetMemory(user_memories, memories, e.user_id) } :
       IF e.kind = "text" /\ e.text = "menu"
       THEN /\ events' = [ events EXCEPT
                             ![t] = ReplyMessage([ e EXCEPT !.pc = "done" ], "menu") ]
            /\ UNCHANGED << user_memories, memories >>
       ELSE IF e.kind = "image" /\ ~content_ok
       THEN /\ events' = [ events EXCEPT
                             ![t] = ReplyMessage([ e EXCEPT !.pc = "done",
                                                            !.raised = TRUE ],
                                                 "apology") ]
            /\ UNCHANGED << user_memories, memories >>
       ELSE IF e.kind = "audio" /\ (~content_ok \/ ~transcript_ok)
       THEN /\ events' = [ events EXCEPT ![t] = [ e EXCEPT !.pc = "done",
                                                          !.raised = TRUE ] ]
            /\ UNCHANGED << user_memories, memories >>
       ELSE /\ events' = [ events EXCEPT ![t] = [ e EXCEPT !.pc = "agent",
                                                          !.memory = m.memory ] ]
            /\ user_memories' = m.user_memories
            /\ memories' = m.memories

\* A handler from the end of agent_executor.ainvoke to its own end.  The
\* executor saves the exchange to the memory it was given when it succeeds.
\* handle_text_message and handle_image_message reply with the agent's
\* reply, or with the apology when the agent raised.  handle_audio_message
\* builds the request and then reads `response`, a name that is not
\* defined (line 470): it ends in its except branch without a reply call.
AgentReturns(t, agent_ok) ==
  /\ events[t].pc = "agent"
  /\ UNCHANGED << builder_vars, processed_file, store_vars, loader_vars, rag,
                  ensure_log, rag_in, search_result, rag_out, rag_calls, http,
                  inflight, tool, user_memories, tarot_service, draw_out >>
  /\ memories' = IF agent_ok
                 THEN [ memories EXCEPT ![events[t].memory].saved = Append(@, t) ]
                 ELSE memories
  /\ \E e \in { events[t] } :
       events' =
         [ events EXCEPT
             ![t] = IF e.kind = "audio"
                    THEN [ e EXCEPT !.pc = "done", !.raised = TRUE ]
                    ELSE IF agent_ok
                    THEN ReplyMessage([ e EXCEPT !.pc = "done" ], "agent")
                    ELSE ReplyMessage([ e EXCEPT !.pc = "done", !.raised = TRUE ],
                                      "apology") ]

(***************************************************************************)
(* services/tarot.py and the /tarot/draw endpoint of app.py.               *)
(***************************************************************************)
MaxDraws == 2

\* _cards = None; reads: how often the file was opened; calls: the calls of draw.
NoTarotService == [ cards |-> << >>, reads |-> 0, calls |-> 0 ]

NoDraw == [ n |-> 0, picked |-> << >>, cards |-> << >>, answer |-> << >> ]

\* Mutant: the file is read at every call.
TarotLoad_EveryCall(service, file) ==
  [ service EXCEPT !.cards = << file.cards >>, !.reads = @ + 1 ]

\* TarotService._load: the file is read when _cards is None.
TarotLoad(service, file) ==
  IF service.cards = << >>
  THEN [ service EXCEPT !.cards = << file.cards >>, !.reads = @ + 1 ]
  ELSE service

\* n = max(1, min(n, len(cls._cards)))
DrawCount(n, cards) ==
  LET least == IF n < Len(cards) THEN n ELSE Len(cards)
  IN IF least > 1 THEN least ELSE 1

\* random.sample(population, k): k places of the population, no place twice,
\* in any order.
RandomSample(population, k) == Arrangements(DOMAIN population, k)

\* tarot_draw and TarotService.draw(req.n).
TarotDraw(n) ==
  /\ tarot_service.calls < MaxDraws
  /\ cards_file.exists
  /\ UNCHANGED << builder_vars, processed_file, store_vars, loader_vars, rag,
                  ensure_log, rag_in, search_result, rag_out, rag_calls, http,
                  inflight, tool, events, user_memories, memories >>
  /\ \E service \in { TarotLoad(tarot_service, cards_file) } :
     \E picked \in RandomSample(service.cards[1], DrawCount(n, service.cards[1])) :
     \E cards \in { [ i \in DOMAIN picked |-> service.cards[1][picked[i]] ] } :
       /\ tarot_service' = [ service EXCEPT !.calls = @ + 1 ]
       /\ draw_out' = [ n |-> n, picked |-> picked, cards |-> cards,
                        answer |-> << [ cards |-> cards ] >> ]

QueryIdle ==
  /\ rag = NoService
  /\ ensure_log = << >>
  /\ rag_in = NoRequest
  /\ search_result = NoSearch
  /\ rag_out = NoResult
  /\ rag_calls = << >>
  /\ http = NoAnswer
  /\ inflight = [ c \in Callers |-> NoCall ]
  /\ tool = NoToolRun
  /\ events = [ t \in Tokens |-> NoEvent ]
  /\ user_memories = [ u \in Users |-> << >> ]
  /\ memories = << >>
  /\ tarot_service = NoTarotService
  /\ draw_out = NoDraw

StoreIdle ==
  /\ collections = << >>
  /\ qdrant_up = TRUE

PrepIdle ==
  /\ prep_exit = "none"
  /\ prep_failed = { }
  /\ prep_puts = << >>
  /\ prep_runs = 0

LoaderIdle ==
  /\ embedder = NoEmbedder
  /\ collection_name = ""
  /\ emb_in = << >>
  /\ emb_out = Raised
  /\ dim_out = NoDimCall
  /\ load_exit = "none"
  /\ load_runs = 0
  /\ PrepIdle

FixIdle ==
  /\ cards_file = NoFile
  /\ fixed_file = NoFile
  /\ fix_exit = "none"

BuilderIdle ==
  /\ raw_file = NoFile
  /\ raw_cards = << >>
  /\ proc_exit = "none"
  /\ proc_log = { }
  /\ proc_runs = 0
  /\ FixIdle

\* The corpus of the standard deck, as the process step writes it.
StandardCorpus == FinalCards(DummyData)

\* The texts of direct get_embeddings calls: the probe text and the texts of
\* the first cards, at most MaxTexts of them, in this order or the reverse.
SampleTexts ==
  [ i \in 1..MaxTexts |-> IF i = 1 THEN ProbeText ELSE CardText(StandardCorpus[i - 1]) ]

TextLists ==
  { SubSeq(SampleTexts, 1, n) : n \in 0..MaxTexts }
    \cup { Reverse(SubSeq(SampleTexts, 1, n)) : n \in 0..MaxTexts }

\* The embedders on their own and in the upload step, the store answering.
EmbedderInit ==
  /\ BuilderIdle
  /\ processed_file = FileOf(StandardCorpus)
  /\ StoreIdle
  /\ LoaderIdle
  /\ QueryIdle

EmbedderNext ==
  \/ \E kind \in EmbedderKinds : MainStart(kind, "")
  \/ \E fails \in BOOLEAN : EmbedderGetDimension(fails)
  \/ \E texts \in TextLists, fails \in BOOLEAN : EmbedderGetEmbeddings(texts, fails)
  \/ \E dim_fail \in BOOLEAN, fail_batch \in { 0, Len(BatchStarts(ExpectedCards)) } :
       StepEmbedAndUpload(dim_fail, fail_batch, FALSE)

SpecEmbedder == EmbedderInit /\ [][EmbedderNext]_vars

\* The query service on a store that the pipeline has loaded, or has not,
\* with a corpus of two cards.
QueryDeck == << RawCard("The Fool"), RawCard("Ace of Wands") >>

QueryCorpus == FinalCards(QueryDeck)

EmptyStore == QdrantCreate(<< >>, COLLECTION_NAME, OLLAMA_EMBEDDING_DIM).store

LoadedStore ==
  QdrantUpsert(EmptyStore, COLLECTION_NAME,
               PointsOf(QueryCorpus,
                        AllEmbeddings(NewEmbedder("ollama", OLLAMA_MODEL),
                                      [ i \in DOMAIN QueryCorpus |->
                                          CardText(QueryCorpus[i]) ],
                                      0).vectors)).store

QueryTexts == { << "What does my future hold?" >> }

\* req.filters: None, an empty dict, or a dict with both keys of the filter,
\* with one of them and another key, or with another key alone.
FilterParams ==
  { << >>,
    << { } >>,
    << { << "arcana", "Major" >>, << "orientation", "reversed" >> } >>,
    << { << "orientation", "reversed" >>, << "name", "The Fool" >> } >>,
    << { << "name", "The Fool" >> } >> }

QueryInit ==
  /\ BuilderIdle
  /\ processed_file = FileOf(QueryCorpus)
  /\ collections \in { << >>, EmptyStore, LoadedStore }
  /\ qdrant_up = TRUE
  /\ LoaderIdle
  /\ QueryIdle

\* The limits of the requests: req.limit is any integer.
Limits == { 0 - k : k \in 0..MaxBelow } \cup 1..MaxLimit

QueryNext ==
  \/ \E text \in QueryTexts, limit \in Limits, filter_params \in FilterParams :
       RagQuery(text, limit, filter_params)
  \/ AnswerSent
  \/ CreateCollectionIfNotExists
  \/ AppRestart
  \/ QdrantGoesDown
  \/ QdrantComesUp

SpecQuery == QueryInit /\ [][QueryNext]_vars

\* The older loader against a store that may stop answering, with the
\* standard corpus in data/tarot_cards.json or no file there.  The store is
\* empty, or holds the collection as the app creates it after its fall back
\* to OpenAI.
FailedCardSets ==
  { { } } \cup { { k } : k \in 1..MaxFailedAt } \cup { 1..ExpectedCards }

PrepareInit ==
  /\ raw_file = NoFile
  /\ raw_cards = << >>
  /\ proc_exit = "none"
  /\ proc_log = { }
  /\ proc_runs = 0
  /\ cards_file \in { NoFile, FileOf(StandardCorpus) }
  /\ fixed_file = NoFile
  /\ fix_exit = "none"
  /\ processed_file = NoFile
  /\ collections \in { << >>,
                        QdrantCreate(<< >>, COLLECTION_NAME, OPENAI_EMBEDDING_DIM).store }
  /\ qdrant_up = TRUE
  /\ LoaderIdle
  /\ QueryIdle

PrepareNext ==
  \/ \E ollama_up \in BOOLEAN, dim_fail \in BOOLEAN, failed \in FailedCardSets,
          fail_batch \in 0..NumBatches(StandardCorpus) :
       PrepareMain(ollama_up, dim_fail, failed, fail_batch)
  \/ \E ollama_up \in BOOLEAN, dim_fail \in BOOLEAN, failed \in FailedCardSets,
          upsert_fails \in BOOLEAN :
       PrepareOllamaMain(ollama_up, dim_fail, failed, upsert_fails)
  \/ QdrantGoesDown
  \/ QdrantComesUp

SpecPrepare == PrepareInit /\ [][PrepareNext]_vars

\* Two callers query the service while the collection is ensured and a loader
\* runs over the corpus of the store, in any interleaving.
ConcurrentInit ==
  /\ raw_file = NoFile
  /\ raw_cards = << >>
  /\ proc_exit = "none"
  /\ proc_log = { }
  /\ proc_runs = 0
  /\ cards_file = FileOf(QueryCorpus)
  /\ fixed_file = NoFile
  /\ fix_exit = "none"
  /\ processed_file = FileOf(QueryCorpus)
  /\ collections \in { << >>, LoadedStore }
  /\ qdrant_up = TRUE
  /\ LoaderIdle
  /\ QueryIdle

ConcurrentNext ==
  \/ \E c \in Callers, text \in ConcurrentTexts, limit \in { MaxLimit } :
       QueryStart(c, text, limit)
  \/ \E c \in Callers, embed_fails \in BOOLEAN : QueryResume(c, embed_fails)
  \/ \E c \in Callers : QueryReturn(c)
  \/ CreateCollectionIfNotExists
  \/ \E failed \in FailedCardSets, upsert_fails \in BOOLEAN :
       PrepareOllamaMain(TRUE, FALSE, failed, upsert_fails)

SpecConcurrent == ConcurrentInit /\ [][ConcurrentNext]_vars

\* The agent runs the TarotReader tool on a store that is empty, holds the
\* empty collection or the loaded one, and may stop answering.
ToolInit ==
  /\ BuilderIdle
  /\ processed_file = FileOf(QueryCorpus)
  /\ collections \in { << >>, EmptyStore, LoadedStore }
  /\ qdrant_up = TRUE
  /\ LoaderIdle
  /\ QueryIdle

ToolNext ==
  \/ \E query \in QueryTexts, embed_fails \in BOOLEAN, llm_fails \in BOOLEAN :
       RunTarotTool(query, embed_fails, llm_fails)
  \/ QdrantGoesDown
  \/ QdrantComesUp

SpecTool == ToolInit /\ [][ToolNext]_vars

\* The webhook with the message events of two users.
WebhookInit ==
  /\ BuilderIdle
  /\ processed_file = NoFile
  /\ collections = << >>
  /\ qdrant_up = TRUE
  /\ LoaderIdle
  /\ QueryIdle

WebhookNext ==
  \/ \E t \in Tokens, kind \in MessageKinds, user_id \in Users, text \in TextClasses :
       /\ kind # "text" => text = "general"
       /\ Callback(t, kind, user_id, text)
  \/ \E t \in Tokens, content_ok \in BOOLEAN, transcript_ok \in BOOLEAN :
       HandlerStart(t, content_ok, transcript_ok)
  \/ \E t \in Tokens, agent_ok \in BOOLEAN : AgentReturns(t, agent_ok)

SpecWebhook == WebhookInit /\ [][WebhookNext]_vars

\* The background tasks of the webhook are run, and the agent ends, with a
\* reply or with an exception.
WebhookFairness ==
  \A t \in Tokens :
    /\ WF_vars(\E content_ok \in BOOLEAN, transcript_ok \in BOOLEAN :
                 HandlerStart(t, content_ok, transcript_ok))
    /\ WF_vars(\E agent_ok \in BOOLEAN : AgentReturns(t, agent_ok))

SpecWebhookLive == WebhookInit /\ [][WebhookNext]_vars /\ WebhookFairness

\* Draws from a corpus of one record or more in data/tarot_cards.json.
DrawCorpora == { SubSeq(QueryCorpus, 1, c) : c \in DOMAIN QueryCorpus }

\* req.n is any integer: below 1, within the corpus, above it.
DrawCounts == { 0 - k : k \in 0..MaxBelow } \cup 1..(Len(QueryCorpus) + MaxBelow)

DrawInit ==
  /\ raw_file = NoFile
  /\ raw_cards = << >>
  /\ proc_exit = "none"
  /\ proc_log = { }
  /\ proc_runs = 0
  /\ cards_file \in { FileOf(corpus) : corpus \in DrawCorpora }
  /\ fixed_file = NoFile
  /\ fix_exit = "none"
  /\ processed_file = NoFile
  /\ collections = << >>
  /\ qdrant_up = TRUE
  /\ LoaderIdle
  /\ QueryIdle

DrawNext == \E n \in DrawCounts : TarotDraw(n)

SpecDraw == DrawInit /\ [][DrawNext]_vars

\* The pipeline runs against a store that may stop answering.
LoaderInit ==
  /\ BuilderIdle
  /\ processed_file \in { NoFile, FileOf(StandardCorpus) }
  /\ StoreIdle
  /\ LoaderIdle
  /\ QueryIdle

LoaderNext ==
  \/ \E kind \in EmbedderKinds, arg \in { "", "tarot_custom" } : MainStart(kind, arg)
  \/ \E dim_fail \in BOOLEAN, fail_batch \in { 0, Len(BatchStarts(ExpectedCards)) },
          upsert_fail \in BOOLEAN :
       StepEmbedAndUpload(dim_fail, fail_batch, upsert_fail)
  \/ QdrantGoesDown
  \/ QdrantComesUp

SpecLoader == LoaderInit /\ [][LoaderNext]_vars

(***************************************************************************)
(* The inputs of the builder: the deck in several orders, and the deck     *)
(* with one card dropped, listed twice, or renamed.                        *)
(***************************************************************************)
ForeignNames == { "The Jester", "Ace of Coins", "Lord of Cups" }

Rotate(s, k) ==
  [ i \in 1..Len(s) |-> s[((i - 1 + k) % Len(s)) + 1] ]

Drop(s, j) == [ i \in 1..(Len(s) - 1) |-> IF i < j THEN s[i] ELSE s[i + 1] ]

Rename(s, j, name) == [ s EXCEPT ![j] = RawCard(name) ]

Rotations == { Rotate(DummyData, k * RotStep) : k \in 0..MaxRot }

DeckOrders == Rotations \cup { Reverse(s) : s \in Rotations }

Edited(s) ==
  UNION { { Drop(s, j), Append(s, s[j]), Rename(s, j, s[j + 1].name_en) }
            \cup { Rename(s, j, x) : x \in ForeignNames } : j \in 1..MaxEditPos }

BuilderInputs ==
  { NoFile, FileOf(<< >>) }
    \cup { FileOf(s) : s \in DeckOrders }
    \cup { FileOf(e) : e \in UNION { Edited(s) : s \in Rotations } }

BuilderInit ==
  /\ raw_file \in BuilderInputs
  /\ processed_file = NoFile
  /\ raw_cards = << >>
  /\ proc_exit = "none"
  /\ proc_log = { }
  /\ proc_runs = 0
  /\ FixIdle
  /\ StoreIdle
  /\ LoaderIdle
  /\ QueryIdle

BuilderNext ==
  \/ StepFetchData
  \/ StepProcessAndValidateData

SpecBuilder == BuilderInit /\ [][BuilderNext]_vars

\* The process step and fix_tarot_json.py on the same deck: tarot_raw.json
\* holds its cards, tarot_cards.json its records in the same order, numbered
\* as they come.
CardsFileOf(raw) ==
  IF raw.exists THEN FileOf(AssignIds(Expand(raw.cards))) ELSE NoFile

\* The decks of the comparison: the deck in several orders, and the fetch
\* order with one card dropped, listed twice, or renamed.
FixInputs ==
  { NoFile } \cup { FileOf(s) : s \in DeckOrders }
    \cup { FileOf(e) : e \in Edited(DummyData) }

FixInit ==
  /\ raw_file \in FixInputs
  /\ cards_file = CardsFileOf(raw_file)
  /\ processed_file = NoFile
  /\ raw_cards = << >>
  /\ proc_exit = "none"
  /\ proc_log = { }
  /\ proc_runs = 0
  /\ fixed_file = NoFile
  /\ fix_exit = "none"
  /\ StoreIdle
  /\ LoaderIdle
  /\ QueryIdle

FixNext ==
  \/ StepProcessAndValidateData
  \/ FixTarotJsonMain

SpecFix == FixInit /\ [][FixNext]_vars

(***************************************************************************)
(* Properties of the corpus builder, checked under SpecBuilder.            *)
(***************************************************************************)
CanonicalNames == Range(MAJOR_ARCANA_ORDER) \cup Range(MinorNames)

\* The 22 Major and 56 Minor names, each once, in any order.
IsStandardDeck(cards) ==
  /\ Len(cards) = Cardinality(CanonicalNames)
  /\ { cards[i].name_en : i \in DOMAIN cards } = CanonicalNames

\* "{Rank} of {Suit}" with a rank and a suit of the fixed lists.
IsMinorForm(name) ==
  \E r \in Range(MINOR_ARCANA_RANKS), s \in Range(MINOR_ARCANA_SUITS) :
    Chars(name) = Chars(r) \o Chars(" of ") \o Chars(s)

\* A name that is neither one of the 22 Major names nor a Minor name.
NonCanonical(name) == ~ListHas(MAJOR_ARCANA_ORDER, name) /\ ~IsMinorForm(name)

HasNonCanonical(cards) == \E i \in DOMAIN cards : NonCanonical(cards[i].name_en)

PairsUnique(recs) ==
  \A i, j \in DOMAIN recs :
    (recs[i].name = recs[j].name /\ recs[i].orientation = recs[j].orientation)
      => i = j

HasRecord(recs, name, orientation, arcana) ==
  \E k \in DOMAIN recs :
    /\ recs[k].name = name
    /\ recs[k].orientation = orientation
    /\ recs[k].arcana = arcana

\* C1: for every input of the 78 canonical cards, each once, the process step
\* succeeds and writes exactly 156 records whose ids are exactly 0..155 and in
\* which every (name, orientation) pair occurs once.
C1_StandardDeckCorpus ==
  (proc_exit # "none" /\ IsStandardDeck(raw_cards)) =>
    /\ proc_exit = "ok"
    /\ processed_file.exists
    /\ Len(processed_file.cards) = ExpectedCards
    /\ { processed_file.cards[i].id : i \in DOMAIN processed_file.cards }
         = 0..(ExpectedCards - 1)
    /\ PairsUnique(processed_file.cards)
    /\ \A n \in CanonicalNames :
         /\ \E k \in DOMAIN processed_file.cards :
              processed_file.cards[k].name = n
                /\ processed_file.cards[k].orientation = "upright"
         /\ \E k \in DOMAIN processed_file.cards :
              processed_file.cards[k].name = n
                /\ processed_file.cards[k].orientation = "reversed"

\* A standard deck in another order than the fetch writes has been processed.
C1_Witness ==
  /\ proc_exit = "ok"
  /\ IsStandardDeck(raw_cards)
  /\ raw_cards # DummyData

C3_Original ==
  (proc_exit # "none" /\ HasNonCanonical(raw_cards)) =>
    (proc_exit = "exit1" /\ ~processed_file.exists)

\* C3 as amended: an input holding a card whose name is not a canonical name
\* does not fail: the card is classified Minor, and the corpus is written with
\* two records for every input card, the card's upright and reversed records
\* among them.
C3_NonCanonicalAccepted ==
  (proc_exit # "none" /\ HasNonCanonical(raw_cards)) =>
    /\ proc_exit = "ok"
    /\ processed_file.exists
    /\ Len(processed_file.cards) = 2 * Len(raw_cards)
    /\ \A i \in DOMAIN raw_cards :
         NonCanonical(raw_cards[i].name_en) =>
           /\ HasRecord(processed_file.cards, raw_cards[i].name_en, "upright", "Minor")
           /\ HasRecord(processed_file.cards, raw_cards[i].name_en, "reversed", "Minor")

\* A deck in which "The Jester" stands for a Major card has been processed.
C3_Witness ==
  /\ proc_exit # "none"
  /\ \E i \in DOMAIN raw_cards : raw_cards[i].name_en = "The Jester"
  /\ \A i \in DOMAIN raw_cards :
       raw_cards[i].name_en # "The Jester" => ~NonCanonical(raw_cards[i].name_en)

\* C4 as stated: when the built list does not hold exactly 156 records the
\* process step fails and no corpus file is written.
C4_CountEnforced ==
  (proc_exit # "none" /\ 2 * Len(raw_cards) # ExpectedCards) =>
    (proc_exit = "exit1" /\ ~processed_file.exists)

\* C5 as stated: when a (name, orientation) pair would occur more than once
\* in the built records the process step fails and no corpus file is written.
C5_DuplicatePairRejected ==
  (proc_exit # "none"
     /\ \E i, j \in DOMAIN raw_cards :
          i # j /\ raw_cards[i].name_en = raw_cards[j].name_en) =>
    (proc_exit = "exit1" /\ ~processed_file.exists)

(***************************************************************************)
(* Properties of the embedders and the upload step.                        *)
(***************************************************************************)
\* The points of the collection the running pipeline loads.
LoadedPoints ==
  IF HasCollection(collections, collection_name)
  THEN CollectionOf(collections, collection_name).points
  ELSE { }

\* What a direct call returned is, text by text, the model's embedding of the
\* text, of the length get_dimension gives whether or not it is cached yet.
CallInOrder ==
  emb_out.ok =>
    /\ Len(emb_out.vectors) = Len(emb_in)
    /\ \A i \in DOMAIN emb_in :
         /\ emb_out.vectors[i] = Vector(embedder.model, emb_in[i])
         /\ \A fails \in BOOLEAN :
              GetDimension(embedder, fails).ok =>
                VecLen(emb_out.vectors[i]) = GetDimension(embedder, fails).value

\* After an upload that ended well, every card has its point, and the point's
\* vector is the embedding of that card's text.
CardsPaired ==
  load_exit = "ok" =>
    /\ Cardinality(LoadedPoints) = Len(processed_file.cards)
    /\ \A p \in LoadedPoints :
         /\ p.id = p.payload.id
         /\ p.vector = Vector(embedder.model, CardText(p.payload))
         /\ << VecLen(p.vector) >> = embedder.dimension
    /\ \A i \in DOMAIN processed_file.cards :
         \E p \in LoadedPoints : p.payload = processed_file.cards[i]

\* C6: a successful get_embeddings of N texts returns N vectors, the i-th the
\* embedding of the i-th text and each of length get_dimension(), for both
\* embedders; and the upload step, which embeds in batches of 32, pairs every
\* card with the embedding of that card's text.
C6_EmbeddingsInOrder == CallInOrder /\ CardsPaired

\* A call with two different texts returned, and an upload of the 156 cards
\* (five batches) ended well, with the OpenAI embedder.
C6_Witness ==
  /\ emb_out.ok
  /\ Len(emb_in) = 2
  /\ emb_in[1] # emb_in[2]
  /\ embedder.kind = "openai"
  /\ load_exit = "ok"
  /\ Len(BatchStarts(Len(processed_file.cards))) = 5
  /\ Cardinality(LoadedPoints) = ExpectedCards

\* The collection already holds the 156 points of this corpus and model.
AlreadyLoaded ==
  /\ processed_file.exists
  /\ Cardinality(LoadedPoints) = ExpectedCards
  /\ \A p \in LoadedPoints : p.vector.model = embedder.model
  /\ { p.payload : p \in LoadedPoints } = Range(processed_file.cards)

\* C10: an upload of the 156-card corpus into a collection that already holds
\* the corpus with the same embeddings leaves the collection with the same 156
\* points: a point of a stored id replaces the stored point.
C10_ReloadOverwrites ==
  [][ ( /\ load_runs' = load_runs + 1
        /\ load_exit' = "ok"
        /\ AlreadyLoaded )
      => ( /\ Cardinality(LoadedPoints') = ExpectedCards
           /\ LoadedPoints' = LoadedPoints ) ]_vars

\* The store has applied a second upsert to the collection, and the run that
\* sent it ended well.
C10_Witness ==
  /\ load_exit = "ok"
  /\ AlreadyLoaded
  /\ CollectionOf(collections, collection_name).operation_id = 2
  /\ { p.id : p \in LoadedPoints } = 0..(ExpectedCards - 1)

(***************************************************************************)
(* Properties of the query service, checked under SpecQuery.               *)
(***************************************************************************)
AtMostLimit == Len(rag_out.results) <= rag_in.limit

AboveThreshold ==
  \A i \in DOMAIN rag_out.results : rag_out.results[i].score >= SIMILARITY_THRESHOLD

\* C7 as stated: a query with limit L >= 1 returns at most L results, each of
\* score >= 0.5, and the scores go strictly down along the list.
C7_Original ==
  rag_out.returned /\ rag_in.limit >= 1 =>
    /\ AtMostLimit
    /\ AboveThreshold
    /\ \A i, j \in DOMAIN rag_out.results :
         i < j => rag_out.results[i].score > rag_out.results[j].score

\* C7, amended: a query with limit L >= 1 returns at most L results, each of
\* score >= 0.5, and no score is above the one before it in the list; two
\* results can carry the same score.
C7_ScoresNeverRise ==
  rag_out.returned /\ rag_in.limit >= 1 =>
    /\ AtMostLimit
    /\ AboveThreshold
    /\ \A i, j \in DOMAIN rag_out.results :
         i < j => rag_out.results[i].score >= rag_out.results[j].score

\* A query returned as many results as its limit allows, out of more matching
\* points, with a candidate below the threshold left out of the answer.
C7_Witness ==
  /\ rag_out.returned
  /\ rag_in.limit = 2
  /\ Len(search_result.hits) = 2
  /\ Len(rag_out.results) = 1
  /\ search_result.hits[2].score < SIMILARITY_THRESHOLD
  /\ Cardinality(CollectionOf(collections, COLLECTION_NAME).points) > rag_in.limit

NoCandidate ==
  /\ http.status # 0
  /\ search_result.ok
  /\ \A i \in DOMAIN search_result.hits :
       search_result.hits[i].score < SIMILARITY_THRESHOLD

\* C8: when the search finds no candidate of score >= 0.5, as it does in an
\* empty collection, the query returns the empty list and raises nothing, and
\* the endpoint answers 200 with results [] and count 0.
C8_NoCandidateEmptyAnswer ==
  NoCandidate =>
    /\ rag_out = QueryReturned(<< >>)
    /\ http = [ status |-> 200, results |-> << >>, count |-> 0 ]

\* The search found candidates, all of them below the threshold.
C8_Witness ==
  /\ NoCandidate
  /\ search_result.hits # << >>
  /\ http.status = 200
  /\ rag_out.returned

\* C9: two calls of create_collection_if_not_exists in succession, by a service
\* connected to a store that answers both, return True both times, send at
\* most one create request, and leave one collection of the name.
C9_EnsureIdempotent ==
  \A k \in DOMAIN ensure_log :
    ( /\ k + 1 \in DOMAIN ensure_log
      /\ ensure_log[k].client /\ ensure_log[k].up
      /\ ensure_log[k + 1].client /\ ensure_log[k + 1].up )
    => /\ ensure_log[k].ok
       /\ ensure_log[k + 1].ok
       /\ ~ensure_log[k + 1].created
       /\ Cardinality({ i \in DOMAIN collections :
                          collections[i].name = COLLECTION_NAME }) = 1

\* The first of two calls created the collection, the second found it.
C9_Witness ==
  /\ Len(ensure_log) = 2
  /\ ensure_log[1] = [ up |-> TRUE, client |-> TRUE, ok |-> TRUE, created |-> TRUE ]
  /\ ensure_log[2] = [ up |-> TRUE, client |-> TRUE, ok |-> TRUE, created |-> FALSE ]
  /\ HasCollection(collections, COLLECTION_NAME)

(***************************************************************************)
(* Claims about the failures of a query.                                   *)
(***************************************************************************)
\* A request was answered by a service that was there, whose embedding of the
\* query text did not fail, while the store did not answer.
StoreUnreachableAtQuery ==
  /\ http.status # 0
  /\ rag.state = "ready"
  /\ ~qdrant_up
  /\ \A i \in DOMAIN rag_calls : rag_calls[i].to = "embed" => rag_calls[i].ok

\* C11: whenever the store is unreachable when a query is made, whether it was
\* so at the construction of the service or became so afterwards, the query
\* fails with ConnectionError and the endpoint answers 503, not 500.
C11_UnreachableIs503 ==
  StoreUnreachableAtQuery =>
    /\ rag_out.raised = "ConnectionError"
    /\ http.status = 503

\* C12 as stated: a request with limit <= 0 is rejected with InvalidArgument,
\* and neither an embedding call nor a search is made for it.
C12_Original ==
  http.status # 0 /\ rag_in.limit <= 0 =>
    /\ rag_out.raised = "InvalidArgument"
    /\ rag_calls = << >>

\* C12, amended: query does not reject a limit <= 0; it neither defaults it
\* nor raises InvalidArgument, and once the query text is embedded it sends the
\* search to the store with the limit unchanged.
C12_LimitPassedUnchanged ==
  http.status # 0 =>
    /\ rag_out.raised # "InvalidArgument"
    /\ \A i \in DOMAIN rag_calls :
         rag_calls[i].to = "search" => rag_calls[i].limit = rag_in.limit
    /\ (\E i \in DOMAIN rag_calls : rag_calls[i].to = "embed" /\ rag_calls[i].ok)
         => \E j \in DOMAIN rag_calls : rag_calls[j].to = "search"

\* A request with a limit below 0 was embedded and its search sent.
C12_Witness ==
  /\ http.status # 0
  /\ rag_in.limit < 0
  /\ Len(rag_calls) = 2
  /\ rag_calls[1].ok
  /\ rag_calls[2].to = "search"
  /\ rag_calls[2].limit = rag_in.limit

\* C15: in every search that query issues, the dimension of the query vector
\* is the configured dimension of the collection searched; a mismatch between
\* provider and collection never first shows up as a failing query.
C15_QueryDimensionIsCollections ==
  \A i \in DOMAIN rag_calls :
    rag_calls[i].to = "search" /\ HasCollection(collections, COLLECTION_NAME)
      => rag_calls[i].dim = CollectionOf(collections, COLLECTION_NAME).size

\* The requests of one call of query are one embedding request that failed,
\* with the failure raised, or one embedding request and then one search,
\* with a failure of the search raised.
OneEmbedThenOneSearch ==
  \/ /\ Len(rag_calls) = 1
     /\ rag_calls[1].to = "embed"
     /\ ~rag_calls[1].ok
     /\ ~rag_out.returned
  \/ /\ Len(rag_calls) = 2
     /\ rag_calls[1].to = "embed"
     /\ rag_calls[1].ok
     /\ rag_calls[2].to = "search"
     /\ rag_calls[2].ok = rag_out.returned

\* C16 as stated: each call of query makes exactly one embedding request
\* followed by exactly one search, with no retry, a failure of either being
\* raised after that single attempt.
C16_Original ==
  http.status # 0 /\ rag.state = "ready" => OneEmbedThenOneSearch

\* C16, amended: each call of query on a service that holds a store client
\* makes exactly one embedding request followed by exactly one search, with no
\* retry, a failure of either being raised after that single attempt; a call
\* on a service without a client raises ConnectionError and makes no request.
C16_OneRoundTripEach ==
  http.status # 0 /\ rag.state = "ready" =>
    IF rag.client THEN OneEmbedThenOneSearch
    ELSE rag_calls = << >> /\ rag_out.raised = "ConnectionError"

\* The embedding request of a call failed and the call raised.
C16_Witness ==
  /\ http.status # 0
  /\ rag.client
  /\ Len(rag_calls) = 1
  /\ ~rag_calls[1].ok
  /\ rag_out.raised = "Exception"

(***************************************************************************)
(* Claims about the names of the collections.                              *)
(***************************************************************************)
\* C17: the name of the collection that the query service uses encodes the
\* embedding provider and the model actually in use, so that vectors of two
\* provider and model pairs never meet in one collection.
C17_NameEncodesProviderAndModel ==
  rag.state = "ready" =>
    /\ StrIn(ProviderInUse(rag), COLLECTION_NAME)
    /\ StrIn(ModelInUse(rag), COLLECTION_NAME)

\* A run of the pipeline with the Ollama embedder, its default model and no
\* --collection has loaded its collection.
DefaultOllamaLoadDone ==
  /\ load_exit = "ok"
  /\ embedder.kind = "ollama"
  /\ embedder.model = DefaultModel("ollama")
  /\ collection_name = DefaultCollectionName("ollama", DefaultModel("ollama"))

\* C18: after the pipeline has run in its default Ollama configuration, the
\* collection it loaded is the one that RAGService.query and the TarotReader
\* tool search in their default configuration.
C18_LoadFeedsQuery ==
  DefaultOllamaLoadDone =>
    /\ collection_name = COLLECTION_NAME
    /\ collection_name = TarotReaderCollection
    /\ HasCollection(collections, COLLECTION_NAME)

(***************************************************************************)
(* Claims about the order of the corpus.                                   *)
(***************************************************************************)
\* The place of a Minor name by suit and rank: Wands, Cups, Swords,
\* Pentacles, and Ace to King within a suit.
SuitPlace ==
  [ n \in Range(MinorNames) |-> ListIndex(MinorNames, n) \div Len(MINOR_ARCANA_RANKS) ]

RankPlace ==
  [ n \in Range(MinorNames) |-> ListIndex(MinorNames, n) % Len(MINOR_ARCANA_RANKS) ]

MajorsFirst(recs) ==
  /\ \A i, j \in DOMAIN recs :
       recs[i].arcana = "Major" /\ recs[j].arcana = "Minor" => i < j
  /\ { recs[i].id : i \in { k \in DOMAIN recs : recs[k].arcana = "Major" } }
       = 0..(2 * Len(MAJOR_ARCANA_ORDER) - 1)

MajorsInSequence(recs) ==
  \A i, j \in DOMAIN recs :
    recs[i].arcana = "Major" /\ recs[j].arcana = "Major" /\ i < j
      => ListIndex(MAJOR_ARCANA_ORDER, recs[i].name)
           <= ListIndex(MAJOR_ARCANA_ORDER, recs[j].name)

MinorsBySuitThenRank(recs) ==
  \A i, j \in DOMAIN recs :
    recs[i].arcana = "Minor" /\ recs[j].arcana = "Minor" /\ i < j
      => \/ SuitPlace[recs[i].name] < SuitPlace[recs[j].name]
         \/ /\ SuitPlace[recs[i].name] = SuitPlace[recs[j].name]
            /\ RankPlace[recs[i].name] <= RankPlace[recs[j].name]

ReversedFollowsUpright(recs) ==
  \A i \in DOMAIN recs :
    recs[i].orientation = "upright"
      => /\ i + 1 \in DOMAIN recs
         /\ recs[i + 1].name = recs[i].name
         /\ recs[i + 1].orientation = "reversed"
         /\ recs[i + 1].id = recs[i].id + 1

\* C19: in the corpus built from the deck, all Major records come before all
\* Minor records and carry the ids 0..43, Major cards follow the fixed
\* sequence of 22 names, Minor cards are grouped by suit in the fixed suit
\* order and by rank within a suit, and the reversed record of every card
\* comes right after its upright record, with the next id.
C19_CanonicalOrder ==
  proc_exit = "ok" /\ IsStandardDeck(raw_cards) =>
    /\ MajorsFirst(processed_file.cards)
    /\ MajorsInSequence(processed_file.cards)
    /\ MinorsBySuitThenRank(processed_file.cards)
    /\ ReversedFollowsUpright(processed_file.cards)

\* The deck was read in the reverse of the canonical order and the corpus
\* was written.
C19_Witness ==
  /\ proc_exit = "ok"
  /\ raw_cards = Reverse(DummyData)
  /\ processed_file.exists
  /\ Len(processed_file.cards) = ExpectedCards

\* Both programs have run on the complete standard deck.
BothRanOnStandardDeck ==
  /\ proc_exit = "ok"
  /\ fix_exit = "ok"
  /\ IsStandardDeck(raw_cards)
  /\ cards_file = CardsFileOf(raw_file)
  /\ Len(fixed_file.cards) = ExpectedCards

\* C20: for a complete standard deck the process step of the pipeline and
\* fix_tarot_json.main give the same id to every (name, orientation) pair.
C20_SameIdsAsFixTarotJson ==
  BothRanOnStandardDeck =>
    \A i \in DOMAIN processed_file.cards, j \in DOMAIN fixed_file.cards :
      /\ processed_file.cards[i].name = fixed_file.cards[j].name
      /\ processed_file.cards[i].orientation = fixed_file.cards[j].orientation
      => processed_file.cards[i].id = fixed_file.cards[j].id

(***************************************************************************)
(* Claims about the failures of a load, checked under SpecPrepare.         *)
(***************************************************************************)
\* C13: an embedding failure for any one text fails the whole embedding
\* operation, so that a load run in which the embedding of any card fails
\* upserts no points at all.
C13_OneFailureNoPoints ==
  prep_exit # "none" /\ prep_failed # { } =>
    /\ prep_exit = "exit1"
    /\ prep_puts = << >>

PreparedPoints ==
  IF HasCollection(collections, PREPARE_COLLECTION)
  THEN CollectionOf(collections, PREPARE_COLLECTION).points
  ELSE { }

BatchFailed == \E i \in DOMAIN prep_puts : ~prep_puts[i].ok

\* The points of the batches that the last run wrote.
WrittenPoints ==
  Only({ { points[k] : k \in { k \in DOMAIN points :
                                 \E i \in DOMAIN prep_puts :
                                   /\ prep_puts[i].ok
                                   /\ prep_puts[i].first <= k
                                   /\ k <= prep_puts[i].last } } :
           points \in { PreparePoints(cards_file.cards, prep_failed) } })

StopsAtFailedBatch ==
  /\ prep_exit = "exit1"
  /\ \A i \in DOMAIN prep_puts : ~prep_puts[i].ok => i = Len(prep_puts)

\* C14 as stated: when a batch of the upload fails, the upload stops and
\* reports the failure, the batches written before it remain, no later batch
\* is sent, and the collection then holds fewer points than the corpus has
\* records.
C14_Original ==
  BatchFailed =>
    /\ StopsAtFailedBatch
    /\ WrittenPoints \subseteq PreparedPoints
    /\ Cardinality(PreparedPoints) < Len(cards_file.cards)

\* C14, amended: when a batch of the upload fails, the upload stops and
\* reports the failure, the batches written before it remain, no later batch
\* is sent, and the collection then holds the points it held before the run
\* with those of the written batches put over them: fewer points than the
\* corpus has records when the collection was empty before the run.
C14_PartialLoadStays ==
  [][ prep_runs' = prep_runs + 1 /\ BatchFailed' =>
        /\ StopsAtFailedBatch'
        /\ \E written \in { WrittenPoints' } :
           \E ids \in { { w.id : w \in written } } :
             PreparedPoints' = { p \in PreparedPoints : p.id \notin ids } \cup written
        /\ (PreparedPoints = { }
              => Cardinality(PreparedPoints') < Len(cards_file.cards)) ]_vars

\* The second batch of a run failed after the first was written.
C14_Witness ==
  /\ Len(prep_puts) = 2
  /\ prep_puts[1].ok
  /\ ~prep_puts[2].ok
  /\ prep_exit = "exit1"
  /\ Cardinality(PreparedPoints) = UploadBatchSize

(***************************************************************************)
(* Claims about the dimension of an embedder, checked under SpecEmbedder.  *)
(***************************************************************************)
\* The step is a call of get_dimension on the embedder in hand.
DimensionCalled == dim_out'.n = dim_out.n + 1

\* C21: an embedder finds its dimension by one probe at most per successful
\* determination: once get_dimension has succeeded, every later call returns
\* the same value and sends no embedding request; a failed probe caches
\* nothing and the next call probes again.
C21_ProbeOnceThenCached ==
  /\ [](dim_out.good_probes <= 1)
  /\ [](dim_out.ok => dim_out.first = << dim_out.value >>)
  /\ [][ DimensionCalled /\ dim_out.first # << >> =>
           dim_out'.ok /\ ~dim_out'.probed ]_vars
  /\ [][ DimensionCalled /\ dim_out.first = << >> => dim_out'.probed ]_vars

\* A second call after a successful one was answered without a probe.
C21_Witness ==
  /\ dim_out.n = 2
  /\ dim_out.ok
  /\ ~dim_out.probed
  /\ dim_out.good_probes = 1


(***************************************************************************)
(* C22                                                                     *)
(***************************************************************************)
\* A call of create_collection_if_not_exists that reached the store.
EnsureReachedStore ==
  /\ Len(ensure_log') = Len(ensure_log) + 1
  /\ ensure_log'[Len(ensure_log')].client
  /\ ensure_log'[Len(ensure_log')].up

\* C22: when a collection of the target name already exists, the
\* ensure-collection operation is a no-op: it sends no create request, it
\* leaves the store, and so the collection's dimension, metric and points,
\* as they were, also when the existing dimension is not the configured one,
\* and it reports success.
C22_EnsureOnExistingIsNoOp ==
  [][ EnsureReachedStore /\ HasCollection(collections, COLLECTION_NAME)
      => /\ collections' = collections
         /\ ensure_log'[Len(ensure_log')].ok
         /\ ~ensure_log'[Len(ensure_log')].created ]_vars

\* An ensure that found the loaded collection of 768 dimensions while the
\* service is configured for another dimension.
C22_Witness ==
  /\ ensure_log # << >>
  /\ ensure_log[Len(ensure_log)] =
       [ up |-> TRUE, client |-> TRUE, ok |-> TRUE, created |-> FALSE ]
  /\ rag.state = "ready"
  /\ \E i \in DOMAIN collections :
       /\ collections[i].name = COLLECTION_NAME
       /\ collections[i].size # rag.embedding_dim
       /\ collections[i].distance = "Cosine"
       /\ collections[i].points # { }


(***************************************************************************)
(* C23                                                                     *)
(***************************************************************************)
\* The items of the filter_params of the request in hand whose key is one
\* of the two keys of the filter.
FilterItemsGiven ==
  IF rag_in.filter_params = << >> THEN { }
  ELSE { c \in rag_in.filter_params[1] : c[1] \in { "arcana", "orientation" } }

\* C23: the search filter that RAGService.query hands to the store is the
\* conjunction of exactly the equality conditions for the keys 'arcana' and
\* 'orientation' that are present in filter_params; any other key is
\* ignored, and with neither key present (filter_params empty or None too)
\* the search goes out with no filter.
C23_FilterIsArcanaAndOrientation ==
  \A i \in DOMAIN rag_calls :
    rag_calls[i].to = "search"
      => /\ FilterItemsGiven = { } => rag_calls[i].query_filter = << >>
         /\ FilterItemsGiven # { } => rag_calls[i].query_filter = << FilterItemsGiven >>
         /\ \A h \in DOMAIN search_result.hits :
              \A c \in FilterItemsGiven :
                search_result.hits[h].payload[c[1]] = c[2]

\* A search for reversed cards with a name given too: both reversed cards
\* are found, the one of another name among them.
C23_Witness ==
  /\ rag_in.filter_params =
       << { << "orientation", "reversed" >>, << "name", "The Fool" >> } >>
  /\ Len(rag_calls) = 2
  /\ rag_calls[2].to = "search"
  /\ rag_calls[2].query_filter = << { << "orientation", "reversed" >> } >>
  /\ search_result.ok
  /\ Len(search_result.hits) = 2
  /\ \E h \in DOMAIN search_result.hits :
       search_result.hits[h].payload.name # "The Fool"


(***************************************************************************)
(* C24, under SpecPrepare.                                                 *)
(***************************************************************************)
\* The step is a run of one of the two older loaders.
PrepareRan == prep_runs' = prep_runs + 1

\* C24: in every loader run points are upserted only after the target
\* collection has been ensured, every point written has the id of its record
\* and the whole record as payload, and a run in which an embedding fails
\* after the ensure step leaves an existing but unloaded collection behind.
C24_EnsureThenLoadWholeRecords ==
  [][ PrepareRan =>
        /\ prep_puts' # << >> => HasCollection(collections', PREPARE_COLLECTION)
        /\ \A p \in PreparedPoints' \ PreparedPoints :
             /\ p.id = p.payload.id
             /\ \E k \in DOMAIN cards_file.cards : cards_file.cards[k] = p.payload
        /\ prep_failed' # { } =>
             /\ HasCollection(collections', PREPARE_COLLECTION)
             /\ PreparedPoints' = { } ]_vars


(***************************************************************************)
(* C25, under SpecConcurrent.                                              *)
(***************************************************************************)
\* A step of a query coroutine, the construction of the service included.
QueryStep == inflight' # inflight

\* What a query for `text` with `limit` returns from `store` when it runs
\* alone.
SoloAnswers(text, limit, store) ==
  { QueryReturned(FormatResults(f.hits)) :
      f \in { g \in QdrantSearch(store, COLLECTION_NAME, Vector(OLLAMA_MODEL, text),
                                 SimilarityTo(text, store, COLLECTION_NAME),
                                 limit, << >>) : g.ok } }

\* C25: queries never change the vector collection: the collections, their
\* configuration and their points are the same after any step of any of the
\* concurrent RAGService.query calls, the construction of the service
\* included; the store changes only in a step of the ensure-collection
\* operation or of a loader's upsert; and a query leaves the other caller's
\* call as it is and returns what it would return from the store alone.
C25_QueriesOnlyRead ==
  /\ [][ QueryStep => collections' = collections ]_vars
  /\ [][ collections' # collections
           => ensure_log' # ensure_log \/ prep_runs' # prep_runs ]_vars
  /\ [][ \A c \in Callers :
           inflight'[c] # inflight[c]
             => /\ \A d \in Callers \ { c } : inflight'[d] = inflight[d]
                /\ inflight'[c].out.returned
                     => inflight'[c].out \in SoloAnswers(inflight[c].text,
                                                         inflight[c].limit,
                                                         collections) ]_vars

\* Both callers have their answers, to different questions, from a store
\* that a loader has written to while they were under way.
C25_Witness ==
  /\ \A c \in Callers :
       /\ inflight[c].pc = "done"
       /\ inflight[c].out.returned
       /\ inflight[c].out.results # << >>
  /\ inflight["first"].text # inflight["second"].text
  /\ inflight["first"].out.results # inflight["second"].out.results
  /\ prep_exit = "ok"
  /\ HasCollection(collections, COLLECTION_NAME)


(***************************************************************************)
(* Claims about the TarotReader tool, checked under SpecTool.              *)
(***************************************************************************)
\* C26: when retrieval yields no card, the TarotReader tool returns the
\* 'no match' message as a normal result: the chat-completion service is
\* not called and no error is reported.
C26_NoCardIsNoMatchMessage ==
  tool.searched /\ tool.hits = << >> =>
    /\ tool.out = "no_match"
    /\ ~tool.llm_called

\* The tool has searched the empty collection.
C26_Witness ==
  /\ tool.out = "no_match"
  /\ tool.searched
  /\ HasCollection(collections, TarotReaderCollection)
  /\ CollectionOf(collections, TarotReaderCollection).points = { }

\* C27: a card whose similarity score is below 0.5 is never surfaced to the
\* interpretation composer: every card that the TarotReader tool places in
\* the prompt of the LLM has a score of 0.5 or more.
C27_PromptCardsAtThreshold ==
  \A i \in DOMAIN tool.prompt : tool.prompt[i].score >= SIMILARITY_THRESHOLD


(***************************************************************************)
(* Claims about the webhook, checked under SpecWebhookLive and SpecWebhook.*)
(***************************************************************************)
\* C28: every message event that the webhook dispatches (text, image or
\* audio) eventually results in exactly one reply call for its reply token,
\* never none and never two: a reply of the handler when the processing
\* succeeds, the apology when it raises.
C28_ExactlyOneReplyPerEvent ==
  /\ \A t \in Tokens : (events[t].pc = "queued") ~> (Len(events[t].replies) = 1)
  /\ [](\A t \in Tokens : Len(events[t].replies) <= 1)
  /\ [](\A t \in Tokens :
          events[t].pc = "done"
            => /\ Len(events[t].replies) = 1
               /\ events[t].raised <=> events[t].replies[1] = "apology")

\* C29: each user has their own conversation memory: at most one memory
\* object is ever made for a user_id, every call for that user_id works on
\* it, and no call saves to (or is given) the memory of another user_id.
C29_OneMemoryPerUser ==
  /\ \A u \in Users :
       Cardinality({ m \in DOMAIN memories : memories[m].user_id = u }) <= 1
  /\ \A t \in Tokens :
       events[t].memory # 0
         => /\ memories[events[t].memory].user_id = events[t].user_id
            /\ user_memories[events[t].user_id] = << events[t].memory >>
  /\ \A m \in DOMAIN memories :
       \A i \in DOMAIN memories[m].saved :
         events[memories[m].saved[i]].user_id = memories[m].user_id

\* Two calls for one user have both saved their exchange to the one memory.
C29_Witness ==
  /\ Len(memories) = 1
  /\ Len(memories[1].saved) = 2
  /\ \A t \in Tokens : events[t].pc = "done" /\ events[t].memory = 1


(***************************************************************************)
(* C30, under SpecDraw.                                                    *)
(***************************************************************************)
\* C30: for a loaded corpus of C >= 1 records and any integer n,
\* TarotService.draw(n) returns exactly max(1, min(n, C)) records, pairwise
\* distinct and all taken from the corpus; the corpus file is read at most
\* once over any sequence of draw calls; and /tarot/draw answers with these
\* cards unchanged.
C30_DrawIsBoundedDistinctSample ==
  /\ tarot_service.reads <= 1
  /\ tarot_service.calls >= 1 =>
       LET corpus == cards_file.cards
           C == Len(corpus)
           n == draw_out.n
       IN /\ C >= 1
          /\ tarot_service.cards = << corpus >>
          /\ Len(draw_out.cards) = (IF n < 1 THEN 1 ELSE IF n > C THEN C ELSE n)
          /\ \A i, j \in DOMAIN draw_out.cards :
               i # j => /\ draw_out.picked[i] # draw_out.picked[j]
                        /\ draw_out.cards[i] # draw_out.cards[j]
          /\ \A i \in DOMAIN draw_out.cards :
               \E k \in DOMAIN corpus : draw_out.cards[i] = corpus[k]
          /\ draw_out.answer = << [ cards |-> draw_out.cards ] >>

\* A second draw, of more cards than the corpus of three has, after one
\* read of the file.
C30_Witness ==
  /\ tarot_service.calls = 2
  /\ tarot_service.reads = 1
  /\ Len(cards_file.cards) = 3
  /\ draw_out.n > 3
  /\ Len(draw_out.cards) = 3

====
